---------------------------- MODULE Spec2Model ----------------------------
(***************************************************************************)
(* A model of xdg-desktop: the Desktop Entry tokenizer                     *)
(* (src/src/desktop_parser.rs), the menu index built on it                 *)
(* (src/src/menu.rs) and the MIME glob matcher (src/src/mime_glob.rs).     *)
(*                                                                         *)
(* Byte buffers and Rust Strings are sequences of one-character strings;   *)
(* NL is the byte '\n'.                                                   *)
(***************************************************************************)
EXTENDS Integers, Sequences, FiniteSets, TLC

NL == "\n"
\* Option::None of an index or a position (Some(i) is i itself, i >= 0)
None == -1

(***************************************************************************)
(* Byte strings the code compares against or writes.                       *)
(***************************************************************************)
b_DesktopAction == <<"D", "e", "s", "k", "t", "o", "p", " ", "A", "c", "t", "i", "o", "n">>
b_DesktopEntry == <<"D", "e", "s", "k", "t", "o", "p", " ", "E", "n", "t", "r", "y">>
b_Type == <<"T", "y", "p", "e">>
b_Directory == <<"D", "i", "r", "e", "c", "t", "o", "r", "y">>
b_Name == <<"N", "a", "m", "e">>
b_Icon == <<"I", "c", "o", "n">>
b_Categories == <<"C", "a", "t", "e", "g", "o", "r", "i", "e", "s">>
b_NoDisplay == <<"N", "o", "D", "i", "s", "p", "l", "a", "y">>
b_true == <<"t", "r", "u", "e">>
b_Exec == <<"E", "x", "e", "c">>
b_StartupWMClass == <<"S", "t", "a", "r", "t", "u", "p", "W", "M", "C", "l", "a", "s", "s">>
b_Terminal == <<"T", "e", "r", "m", "i", "n", "a", "l">>
b_MimeType == <<"M", "i", "m", "e", "T", "y", "p", "e">>
b_DefaultApplications == <<"D", "e", "f", "a", "u", "l", "t", " ", "A", "p", "p", "l", "i", "c", "a", "t", "i", "o", "n", "s">>
b_AddAssociations == <<"A", "d", "d", " ", "A", "s", "s", "o", "c", "i", "a", "t", "i", "o", "n", "s">>
b_RemovedAssociations == <<"R", "e", "m", "o", "v", "e", "d", " ", "A", "s", "s", "o", "c", "i", "a", "t", "i", "o", "n", "s">>
b_flatpak == <<"f", "l", "a", "t", "p", "a", "k">>
b_cmd_prefix == <<"-", "-", "c", "o", "m", "m", "a", "n", "d", "=">>
b_other_apps == <<"_", "_", "o", "t", "h", "e", "r", "_", "a", "p", "p", "s">>
b_dot_desktop == <<".", "d", "e", "s", "k", "t", "o", "p">>
b_desktop == <<"d", "e", "s", "k", "t", "o", "p">>
b_directory == <<"d", "i", "r", "e", "c", "t", "o", "r", "y">>
b_Others == <<"O", "t", "h", "e", "r", "s">>
b_FvwmApplications == <<"F", "v", "w", "m", "A", "p", "p", "l", "i", "c", "a", "t", "i", "o", "n", "s">>
b_root_icon == <<"_", "r", "o", "o", "t">>
b_applications_other == <<"a", "p", "p", "l", "i", "c", "a", "t", "i", "o", "n", "s", "-", "o", "t", "h", "e", "r">>

(***************************************************************************)
(* Slice helpers of the Rust standard library, as the code uses them.      *)
(***************************************************************************)
\* slice[from..] with a 0-based `from`
SliceFrom(s, from) == SubSeq(s, from + 1, Len(s))

\* slice[..to] with a 0-based, exclusive `to`
SliceTo(s, to) == SubSeq(s, 1, to)

\* Iterator::position: the 0-based index of the first element satisfying the
\* predicate, hits[i] telling whether element i does
Position(hits) ==
    IF \E i \in 1..Len(hits) : hits[i]
    THEN (CHOOSE i \in 1..Len(hits) : hits[i] /\ \A j \in 1..(i - 1) : ~hits[j]) - 1
    ELSE None

starts_with(s, prefix) ==
    Len(s) >= Len(prefix) /\ SubSeq(s, 1, Len(prefix)) = prefix

ends_with(s, suffix) ==
    Len(s) >= Len(suffix) /\ SubSeq(s, Len(s) - Len(suffix) + 1, Len(s)) = suffix

\* u8::to_ascii_lowercase on every byte
AsciiUpper == <<"A", "B", "C", "D", "E", "F", "G", "H", "I", "J", "K", "L", "M",
                "N", "O", "P", "Q", "R", "S", "T", "U", "V", "W", "X", "Y", "Z">>
AsciiLower == <<"a", "b", "c", "d", "e", "f", "g", "h", "i", "j", "k", "l", "m",
                "n", "o", "p", "q", "r", "s", "t", "u", "v", "w", "x", "y", "z">>
to_ascii_lowercase(s) ==
    [i \in DOMAIN s |->
        IF \E k \in 1..26 : AsciiUpper[k] = s[i]
        THEN AsciiLower[CHOOSE k \in 1..26 : AsciiUpper[k] = s[i]]
        ELSE s[i]]

\* str::split / slice::split on one separator: every piece, empty ones included
RECURSIVE SplitAcc(_, _, _, _)
SplitAcc(s, sep, cur, acc) ==
    IF s = <<>> THEN Append(acc, cur)
    ELSE IF Head(s) = sep THEN SplitAcc(Tail(s), sep, <<>>, Append(acc, cur))
    ELSE SplitAcc(Tail(s), sep, Append(cur, Head(s)), acc)
Split(s, sep) == SplitAcc(s, sep, <<>>, <<>>)

\* Sequences over S of length at most n
SeqsUpTo(S, n) == UNION {[1..k -> S] : k \in 0..n}

\* A byte that is not valid UTF-8 on its own, and U+FFFD which replaces it
BadByte == "<FF>"
Replacement == "<FFFD>"
\* String::from_utf8_lossy
decode(bytes) ==
    [i \in DOMAIN bytes |-> IF bytes[i] = BadByte THEN Replacement ELSE bytes[i]]
\* str::from_utf8(..).is_ok()
is_utf8(bytes) == \A i \in DOMAIN bytes : bytes[i] # BadByte

(***************************************************************************)
(* The tokenizer, DesktopFile::parse.                                      *)
(***************************************************************************)
skip_whitespace(slice) ==
    LET pos == Position([i \in DOMAIN slice |-> slice[i] # " "])
    IN IF pos # None THEN SliceFrom(slice, pos) ELSE slice

\* Some((&slice[pos..], pos)) as the record [rest, pos]; None has pos = None
find_next_char(x, slice) ==
    LET pos == Position([i \in DOMAIN slice |-> slice[i] = NL \/ slice[i] = x])
    IN IF pos # None /\ slice[pos + 1] = x
       THEN [rest |-> SliceFrom(slice, pos), pos |-> pos]
       ELSE [rest |-> <<>>, pos |-> None]

\* One callback invocation: which callback, and the bytes handed to it
Ev(kind, bytes) == [kind |-> kind, bytes |-> bytes]

\* The loop of parse from `slice0` on, `ev` being the callbacks invoked so far.
\* The result tells whether the pass returned or an unwrap() on None panicked.
RECURSIVE parse_loop(_, _)
parse_loop(slice0, ev) ==
    IF Len(slice0) = 0 THEN [events |-> ev, panicked |-> FALSE]
    ELSE
    LET slice == skip_whitespace(slice0) IN
    IF slice[1] = NL THEN parse_loop(SliceFrom(slice, 1), ev)
    ELSE IF slice[1] = "#" THEN
        LET r == find_next_char(NL, slice) IN
        IF r.pos = None THEN [events |-> ev, panicked |-> TRUE]
        ELSE parse_loop(r.rest, ev)
    ELSE IF slice[1] = "[" THEN
        LET s1 == SliceFrom(slice, 1)
            r == find_next_char("]", s1) IN
        IF r.pos = None THEN [events |-> ev, panicked |-> TRUE]
        ELSE parse_loop(SliceFrom(r.rest, 1),
                        Append(ev, Ev("section", SliceTo(s1, r.pos))))
    ELSE
        LET r == find_next_char("=", slice) IN
        IF r.pos = None THEN [events |-> ev, panicked |-> TRUE]
        ELSE
        LET ev1 == Append(ev, Ev("key", SliceTo(slice, r.pos)))
            s2 == SliceFrom(r.rest, 1)
            r2 == find_next_char(NL, s2) IN
        IF r2.pos = None
        THEN [events |-> Append(ev1, Ev("value", s2)), panicked |-> FALSE]
        ELSE parse_loop(SliceFrom(r2.rest, 1),
                        Append(ev1, Ev("value", SliceTo(s2, r2.pos))))

parse(bytes) == parse_loop(bytes, <<>>)

(***************************************************************************)
(* Menu items (MenuItem, MenuItemDetail).  The detail is a record whose    *)
(* kind is "Entry", "Directory" or "Unknown"; the fields of                *)
(* MenuItemDetailEntry are empty in the two other kinds.                   *)
(***************************************************************************)
DetailEntry(exec, wmclass, is_terminal, mimes) ==
    [kind |-> "Entry", exec |-> exec, wmclass |-> wmclass,
     is_terminal |-> is_terminal, mimes |-> mimes]
DetailDirectory ==
    [kind |-> "Directory", exec |-> <<>>, wmclass |-> <<>>,
     is_terminal |-> FALSE, mimes |-> <<>>]
DetailUnknown ==
    [kind |-> "Unknown", exec |-> <<>>, wmclass |-> <<>>,
     is_terminal |-> FALSE, mimes |-> <<>>]

MenuItem_new ==
    [name |-> <<>>, icon |-> <<>>, categories |-> <<>>, idx |-> 0,
     basename |-> <<>>, hidden |-> FALSE, detail |-> DetailUnknown]
MenuItem_root ==
    [name |-> b_FvwmApplications, icon |-> b_root_icon, categories |-> <<>>,
     idx |-> 0, basename |-> <<>>, hidden |-> TRUE, detail |-> DetailDirectory]
MenuItem_other ==
    [name |-> b_Others, icon |-> b_applications_other, categories |-> <<>>,
     idx |-> 1, basename |-> b_other_apps, hidden |-> FALSE,
     detail |-> DetailDirectory]

Menu_new(item_idx) == [item_idx |-> item_idx, children |-> <<>>]

\* HashMap::insert and HashMap::contains_key on a map kept as a function
MapInsert(m, k, v) == [x \in (DOMAIN m) \cup {k} |-> IF x = k THEN v ELSE m[x]]
Has(m, k) == k \in DOMAIN m
EmptyMap == [x \in {} |-> 0]

(***************************************************************************)
(* MenuIndexDesktopParser: the callbacks of a .desktop/.directory pass.    *)
(* dp is [name_str, filename, current, current_key, in_action].            *)
(***************************************************************************)
desk_on_section(dp, name) ==
    IF starts_with(name, b_DesktopAction) THEN [dp EXCEPT !.in_action = TRUE]
    ELSE IF starts_with(name, b_DesktopEntry)
    THEN [dp EXCEPT !.current.detail = DetailEntry(<<>>, <<>>, FALSE, <<>>)]
    ELSE dp

desk_on_key(dp, key) ==
    IF ~dp.in_action THEN [dp EXCEPT !.current_key = decode(key)] ELSE dp

desk_on_value(dp, value) ==
    IF dp.in_action THEN dp
    ELSE IF dp.current_key = b_Type /\ value = b_Directory
    THEN [dp EXCEPT !.current.detail = DetailDirectory]
    ELSE IF dp.current_key = dp.name_str
    THEN [dp EXCEPT !.current.name = decode(value)]
    ELSE IF dp.current_key = b_Icon
    THEN [dp EXCEPT !.current.icon = decode(value)]
    ELSE IF dp.current_key = b_Categories
    THEN [dp EXCEPT !.current.categories = decode(value)]
    ELSE IF dp.current_key = b_NoDisplay
    THEN [dp EXCEPT !.current.hidden = (to_ascii_lowercase(value) = b_true)]
    ELSE IF dp.current.detail.kind = "Entry"
    THEN IF dp.current_key = b_Exec
         THEN [dp EXCEPT !.current.detail.exec = decode(value)]
         ELSE IF dp.current_key = b_StartupWMClass
         THEN [dp EXCEPT !.current.detail.wmclass = decode(value)]
         ELSE IF dp.current_key = b_Terminal
         THEN [dp EXCEPT !.current.detail.is_terminal =
                             (to_ascii_lowercase(value) = b_true)]
         ELSE IF dp.current_key = b_MimeType
         THEN [dp EXCEPT !.current.detail.mimes = Split(decode(value), ";")]
         ELSE dp
    ELSE dp

\* The callbacks driven by the events of one pass, in order
RECURSIVE desk_drive(_, _)
desk_drive(dp, ev) ==
    IF ev = <<>> THEN dp
    ELSE LET e == Head(ev)
             dp1 == IF e.kind = "section" THEN desk_on_section(dp, e.bytes)
                    ELSE IF e.kind = "key" THEN desk_on_key(dp, e.bytes)
                    ELSE desk_on_value(dp, e.bytes)
         IN desk_drive(dp1, Tail(ev))

(***************************************************************************)
(* Assoc records and MenuIndexAssocParser.                                 *)
(* ap is [cur_mime, cur_assoc, assocs].                                    *)
(***************************************************************************)
Assoc(filename, mime, assoc_type) ==
    [filename |-> filename, mime |-> mime, assoc_type |-> assoc_type]

\* AssocType's Display with "Added Associations" as the name of the Add section
AssocType_fmt_added(t) ==
    IF t = "Add" THEN <<"A", "d", "d", "e", "d", " ", "A", "s", "s", "o", "c", "i", "a", "t", "i", "o", "n", "s">>
    ELSE IF t = "Remove" THEN b_RemovedAssociations
    ELSE b_DefaultApplications

\* impl fmt::Display for AssocType
AssocType_fmt(t) ==
    IF t = "Add" THEN b_AddAssociations
    ELSE IF t = "Remove" THEN b_RemovedAssociations
    ELSE b_DefaultApplications

assoc_on_section(ap, name) ==
    IF starts_with(name, b_DefaultApplications) THEN [ap EXCEPT !.cur_assoc = "Default"]
    ELSE IF starts_with(name, b_AddAssociations) THEN [ap EXCEPT !.cur_assoc = "Add"]
    ELSE IF starts_with(name, b_RemovedAssociations) THEN [ap EXCEPT !.cur_assoc = "Remove"]
    ELSE ap

assoc_on_key(ap, key) == [ap EXCEPT !.cur_mime = decode(key)]

RECURSIVE assoc_push_tokens(_, _)
assoc_push_tokens(ap, toks) ==
    IF toks = <<>> THEN ap
    ELSE LET s == Head(toks) IN
         IF Len(s) = 0 \/ ~is_utf8(s) THEN assoc_push_tokens(ap, Tail(toks))
         ELSE assoc_push_tokens(
                 [ap EXCEPT !.assocs = Append(@, Assoc(s, ap.cur_mime, ap.cur_assoc))],
                 Tail(toks))

assoc_on_value(ap, value) == assoc_push_tokens(ap, Split(value, ";"))

RECURSIVE assoc_drive(_, _)
assoc_drive(ap, ev) ==
    IF ev = <<>> THEN ap
    ELSE LET e == Head(ev)
             ap1 == IF e.kind = "section" THEN assoc_on_section(ap, e.bytes)
                    ELSE IF e.kind = "key" THEN assoc_on_key(ap, e.bytes)
                    ELSE assoc_on_value(ap, e.bytes)
         IN assoc_drive(ap1, Tail(ev))

(***************************************************************************)
(* MenuIndex.  mi is the struct as a record                                *)
(* [index, mime_assoc_index, items, local_assocs, filename_index,          *)
(*  desk_parser, assoc_parser]; items[i + 1] is arena item i.              *)
(***************************************************************************)
MenuAssociation(default, all) == [default |-> default, all |-> all]

\* MenuItemDetailEntry::guess_wmclass
RECURSIVE first_command_arg(_)
first_command_arg(args) ==
    IF args = <<>> THEN None
    ELSE IF starts_with(Head(args), b_cmd_prefix) THEN 1
    ELSE LET r == first_command_arg(Tail(args))
         IN IF r = None THEN None ELSE r + 1
guess_wmclass(exec) ==
    LET args == Split(exec, " ")
        rest == Tail(args)
        k == IF ends_with(args[1], b_flatpak) THEN first_command_arg(rest) ELSE None
        segs == Split(args[1], "/")
    IN IF k # None THEN SliceFrom(rest[k], Len(b_cmd_prefix))
       ELSE segs[Len(segs)]

\* MenuIndex::new; the locale is Some(lc) when has_locale
MenuIndex_new(has_locale, lc) ==
    [index |-> MapInsert(EmptyMap, <<>>, Menu_new(0)),
     mime_assoc_index |-> EmptyMap,
     items |-> <<MenuItem_root>>,
     local_assocs |-> <<>>,
     filename_index |-> EmptyMap,
     desk_parser |->
        [name_str |-> IF has_locale THEN b_Name \o <<"[">> \o lc \o <<"]">> ELSE b_Name,
         filename |-> MenuItem_other.basename,
         current |-> MenuItem_other,
         current_key |-> <<>>,
         in_action |-> FALSE],
     assoc_parser |-> [cur_mime |-> <<>>, cur_assoc |-> "Default", assocs |-> <<>>]]

MenuIndex_new_default == MenuIndex_new(FALSE, <<>>)

\* MenuIndex::desk_parser_reset: the index afterwards, and the bool returned
desk_parser_reset(mi) ==
    LET current == mi.desk_parser.current
        mi1 == [mi EXCEPT !.desk_parser.current = MenuItem_new,
                          !.desk_parser.in_action = FALSE]
    IN IF current.name # <<>>
       THEN LET filename == mi.desk_parser.filename
                c1 == [current EXCEPT !.basename = filename, !.idx = Len(mi.items)]
                c2 == IF c1.detail.kind = "Entry" /\ c1.detail.wmclass = <<>>
                      THEN [c1 EXCEPT !.detail.wmclass = guess_wmclass(c1.detail.exec)]
                      ELSE c1
                index1 == IF c1.detail.kind = "Directory"
                          THEN MapInsert(mi.index, filename, Menu_new(c1.idx))
                          ELSE mi.index
            IN [mi |-> [mi1 EXCEPT !.index = index1, !.items = Append(@, c2)],
                pushed |-> TRUE]
       ELSE [mi |-> mi1, pushed |-> FALSE]

\* MenuIndex::assoc_parser_reset: the index afterwards, and the Vec returned
assoc_parser_reset(mi) ==
    [mi |-> [mi EXCEPT !.assoc_parser.cur_mime = <<>>, !.assoc_parser.assocs = <<>>],
     result |-> mi.assoc_parser.assocs]

\* scan_prefix_path, the body of the loop over the files of applications/ or
\* desktop-directories/: the file named stem.ext holding bytes.  The result is
\* the index afterwards and whether the tokenizer panicked.
scan_entry_file(mi, stem, ext, bytes) ==
    LET mi1 == [mi EXCEPT !.desk_parser.filename = stem]
        p == parse(bytes)
        mi2 == [mi1 EXCEPT !.desk_parser = desk_drive(@, p.events)]
        r == desk_parser_reset(mi2)
    IN IF p.panicked THEN [mi |-> mi2, panicked |-> TRUE]
       ELSE IF r.pushed
       THEN [mi |-> [r.mi EXCEPT !.filename_index =
                        MapInsert(@, stem \o <<".">> \o ext, Len(r.mi.items) - 1)],
             panicked |-> FALSE]
       ELSE [mi |-> r.mi, panicked |-> FALSE]

\* Vec::remove at the first position holding m, if any
remove_first(v, m) ==
    LET pos == Position([i \in DOMAIN v |-> v[i] = m])
    IN IF pos = None THEN v ELSE SliceTo(v, pos) \o SliceFrom(v, pos + 1)

\* The loop body with a Default record that yields to a default already set
apply_assoc_first_wins(mi, assoc) ==
    IF ~Has(mi.filename_index, assoc.filename) THEN mi
    ELSE LET idx == mi.filename_index[assoc.filename] IN
         IF mi.items[idx + 1].detail.kind # "Entry" THEN mi
         ELSE IF assoc.assoc_type = "Add"
         THEN [mi EXCEPT !.items[idx + 1].detail.mimes = Append(@, assoc.mime)]
         ELSE IF assoc.assoc_type = "Remove"
         THEN [mi EXCEPT !.items[idx + 1].detail.mimes = remove_first(@, assoc.mime)]
         ELSE IF Has(mi.mime_assoc_index, assoc.mime) THEN mi
         ELSE [mi EXCEPT !.mime_assoc_index =
                   MapInsert(@, assoc.mime, MenuAssociation(idx, <<>>))]

\* scan_prefix_path, the body of the loop that applies one record
apply_assoc(mi, assoc) ==
    IF ~Has(mi.filename_index, assoc.filename) THEN mi
    ELSE LET idx == mi.filename_index[assoc.filename] IN
         IF mi.items[idx + 1].detail.kind # "Entry" THEN mi
         ELSE IF assoc.assoc_type = "Add"
         THEN [mi EXCEPT !.items[idx + 1].detail.mimes = Append(@, assoc.mime)]
         ELSE IF assoc.assoc_type = "Remove"
         THEN [mi EXCEPT !.items[idx + 1].detail.mimes = remove_first(@, assoc.mime)]
         ELSE [mi EXCEPT !.mime_assoc_index =
                   MapInsert(@, assoc.mime, MenuAssociation(idx, <<>>))]

RECURSIVE apply_assocs(_, _)
apply_assocs(mi, assocs) ==
    IF assocs = <<>> THEN mi
    ELSE apply_assocs(apply_assoc(mi, Head(assocs)), Tail(assocs))

\* scan_prefix_path, the mimeapps.list of a root holding bytes; is_local tells
\* whether the root is $HOME/.local/share/applications
scan_mimeapps(mi, bytes, is_local) ==
    LET p == parse(bytes)
        mi1 == [mi EXCEPT !.assoc_parser = assoc_drive(@, p.events)]
        r == assoc_parser_reset(mi1)
        mi2 == IF is_local THEN [r.mi EXCEPT !.local_assocs = r.result] ELSE r.mi
    IN IF p.panicked THEN [mi |-> mi1, panicked |-> TRUE, assocs |-> <<>>]
       ELSE [mi |-> apply_assocs(mi2, r.result), panicked |-> FALSE,
             assocs |-> r.result]

\* scan_all, "Connect all items": the body of the loop for the item at idx
RECURSIVE connect_keys(_, _, _, _)
connect_keys(index, keys, idx, in_menu) ==
    IF keys = <<>> THEN [index |-> index, in_menu |-> in_menu]
    ELSE LET key == Head(keys) IN
         IF key = <<>> THEN connect_keys(index, Tail(keys), idx, in_menu)
         ELSE IF Has(index, key)
         THEN connect_keys([index EXCEPT ![key].children = Append(@, idx)],
                           Tail(keys), idx, TRUE)
         ELSE connect_keys(index, Tail(keys), idx, in_menu)

\* The loop body that puts every item other than a category-less Directory
\* into Others, whether one of its categories was found or not
connect_item_always_others(index, item) ==
    IF item.idx = 0 THEN index
    ELSE IF item.categories = <<>> /\ item.detail.kind = "Directory"
    THEN [index EXCEPT ![<<>>].children = Append(@, item.idx)]
    ELSE LET r == connect_keys(index, Split(item.categories, ";"), item.idx, FALSE)
         IN IF item.basename # b_other_apps
            THEN [r.index EXCEPT ![b_other_apps].children = Append(@, item.idx)]
            ELSE r.index

connect_item(index, item) ==
    IF item.idx = 0 THEN index
    ELSE IF item.categories = <<>> /\ item.detail.kind = "Directory"
    THEN [index EXCEPT ![<<>>].children = Append(@, item.idx)]
    ELSE LET r == connect_keys(index, Split(item.categories, ";"), item.idx, FALSE)
         IN IF item.basename # b_other_apps /\ ~r.in_menu
            THEN [r.index EXCEPT ![b_other_apps].children = Append(@, item.idx)]
            ELSE r.index

RECURSIVE connect_all(_, _)
connect_all(index, its) ==
    IF its = <<>> THEN index
    ELSE connect_all(connect_item(index, Head(its)), Tail(its))

\* scan_all, "Build MIME associations": the inner loop for item i
RECURSIVE build_mimes(_, _, _)
build_mimes(mai, mimes, i) ==
    IF mimes = <<>> THEN mai
    ELSE LET mime == Head(mimes) IN
         IF Has(mai, mime)
         THEN build_mimes([mai EXCEPT ![mime].all = Append(@, i)], Tail(mimes), i)
         ELSE build_mimes(MapInsert(mai, mime, MenuAssociation(None, <<i>>)),
                          Tail(mimes), i)

RECURSIVE build_all(_, _, _)
build_all(mai, its, i) ==
    IF i >= Len(its) THEN mai
    ELSE IF its[i + 1].detail.kind # "Entry" THEN build_all(mai, its, i + 1)
    ELSE build_all(build_mimes(mai, its[i + 1].detail.mimes, i), its, i + 1)

\* scan_all after the loop over the roots
scan_all_finish(mi) ==
    [mi EXCEPT !.index = connect_all(mi.index, mi.items),
               !.mime_assoc_index = build_all(mi.mime_assoc_index, mi.items, 0)]

\* MenuIndex::change_default_assoc, the loop over local_assocs
patch_local(local, filename, mime) ==
    LET pos == Position([i \in DOMAIN local |->
                            /\ local[i].assoc_type = "Default"
                            /\ local[i].filename = filename
                            /\ local[i].mime = mime])
    IN IF pos = None THEN local
       ELSE [local EXCEPT ![pos + 1].filename = filename]

\* MenuIndex::change_default_assoc
change_default_assoc(mi, mime, idx) ==
    LET filename == mi.items[idx + 1].basename \o b_dot_desktop
        old_default == IF Has(mi.mime_assoc_index, mime)
                       THEN mi.mime_assoc_index[mime].default ELSE None
        mai == IF Has(mi.mime_assoc_index, mime)
               THEN [mi.mime_assoc_index EXCEPT ![mime].default = idx]
               ELSE MapInsert(mi.mime_assoc_index, mime, MenuAssociation(idx, <<>>))
    IN IF old_default = None
       THEN [mi EXCEPT !.mime_assoc_index = mai,
                       !.local_assocs = Append(@, Assoc(filename, mime, "Default"))]
       ELSE [mi EXCEPT !.mime_assoc_index = mai,
                       !.local_assocs = patch_local(@, filename, mime)]

\* MenuIndex::write_default_assoc: the bytes written to mimeapps.list
RECURSIVE write_assocs(_, _, _)
write_assocs(local, cur_sec, out) ==
    IF local = <<>> THEN out
    ELSE LET assoc == Head(local)
             hdr == IF cur_sec # assoc.assoc_type
                    THEN <<"[">> \o AssocType_fmt(assoc.assoc_type) \o <<"]", NL>>
                    ELSE <<>>
         IN write_assocs(Tail(local), assoc.assoc_type,
                         out \o hdr \o assoc.mime \o <<"=">> \o assoc.filename \o <<NL>>)
write_default_assoc(mi) == write_assocs(mi.local_assocs, "None", <<>>)

(***************************************************************************)
(* The MIME glob matcher (src/src/mime_glob.rs).  A MIMEGlobItem is        *)
(* [some, score, mime, pattern]; Option<&MIMEGlobItem> is an item whose    *)
(* `some` tells whether it is Some.                                        *)
(***************************************************************************)
MIMEGlobItem(score, mime, pattern) ==
    [some |-> TRUE, score |-> score, mime |-> mime, pattern |-> pattern]
NoItem == [some |-> FALSE, score |-> 0, mime |-> <<>>, pattern |-> <<>>]

\* glob::Pattern::matches with the default MatchOptions, for patterns of
\* literal characters, '?' and '*'
RECURSIVE pattern_matches(_, _)
pattern_matches(ptn, str) ==
    IF ptn = <<>> THEN str = <<>>
    ELSE IF Head(ptn) = "*"
    THEN \E k \in 0..Len(str) : pattern_matches(Tail(ptn), SliceFrom(str, k))
    ELSE IF Head(ptn) = "?"
    THEN str # <<>> /\ pattern_matches(Tail(ptn), Tail(str))
    ELSE str # <<>> /\ Head(str) = Head(ptn) /\ pattern_matches(Tail(ptn), Tail(str))

\* MIMEGlobIndex::new, the closure handed to mime_glob_foreach: the index
\* [glob_patterns, glob_suffix_index] after the record score:mime:ptn
glob_add(gi, score, mime, ptn) ==
    IF Len(ptn) > 0 /\ ptn[1] = "*"
       /\ \A i \in 2..Len(ptn) : ptn[i] # "*" /\ ptn[i] # "?"
    THEN [gi EXCEPT !.glob_suffix_index =
              MapInsert(@, SliceFrom(ptn, 1), MIMEGlobItem(score, mime, <<>>))]
    ELSE [gi EXCEPT !.glob_patterns = Append(@, MIMEGlobItem(score, mime, ptn))]

RECURSIVE glob_add_all(_, _)
glob_add_all(gi, db) ==
    IF db = <<>> THEN gi
    ELSE LET r == Head(db)
         IN glob_add_all(glob_add(gi, r.score, r.mime, r.ptn), Tail(db))

\* MIMEGlobIndex::new over the records of the glob database
MIMEGlobIndex_new(db) ==
    glob_add_all([glob_patterns |-> <<>>, glob_suffix_index |-> EmptyMap], db)

\* str::rfind of one character: the 0-based index of its last occurrence
rfind(str, ch) ==
    IF \E i \in 1..Len(str) : str[i] = ch
    THEN (CHOOSE i \in 1..Len(str) : str[i] = ch /\ \A j \in (i + 1)..Len(str) : str[j] # ch) - 1
    ELSE None

match_filename_suffix(gi, filename) ==
    LET extpos == rfind(filename, ".")
    IN IF extpos # None /\ Has(gi.glob_suffix_index, SliceFrom(filename, extpos))
       THEN gi.glob_suffix_index[SliceFrom(filename, extpos)]
       ELSE NoItem

RECURSIVE match_patterns(_, _, _)
match_patterns(patterns, filename, min_score) ==
    IF patterns = <<>> THEN NoItem
    ELSE LET glob_item == Head(patterns) IN
         IF glob_item.score < min_score THEN NoItem
         ELSE IF pattern_matches(glob_item.pattern, filename) THEN glob_item
         ELSE match_patterns(Tail(patterns), filename, min_score)
match_filename_pattern(gi, filename, min_score) ==
    match_patterns(gi.glob_patterns, filename, min_score)

\* MIMEGlobIndex::match_filename: Option<&str> as [some, mime]
match_filename(gi, filename) ==
    LET suffix_match == match_filename_suffix(gi, filename)
        suffix_score == IF suffix_match.some THEN suffix_match.score ELSE 0
        pattern_match == match_filename_pattern(gi, filename, suffix_score)
        pattern_score == IF pattern_match.some THEN pattern_match.score ELSE 0
    IN IF suffix_score > pattern_score
       THEN [some |-> suffix_match.some, mime |-> suffix_match.mime]
       ELSE [some |-> pattern_match.some, mime |-> pattern_match.mime]

\* The glob databases: records score:mime:pattern, in the order of globs2,
\* which lists the heavier records first
Rec(score, mime, ptn) == [score |-> score, mime |-> mime, ptn |-> ptn]
MaxGlobRecords == 3
mt_gzip == <<"a", "p", "p", "l", "i", "c", "a", "t", "i", "o", "n", "/", "g", "z", "i", "p">>
mt_targz == <<"a", "p", "p", "l", "i", "c", "a", "t", "i", "o", "n", "/", "x", "-", "t", "a", "r", "-", "g", "z">>
mt_generic == <<"a", "p", "p", "l", "i", "c", "a", "t", "i", "o", "n", "/", "x", "-", "g", "e", "n", "e", "r", "i", "c">>
mt_text == <<"t", "e", "x", "t", "/", "p", "l", "a", "i", "n">>
mt_readme == <<"t", "e", "x", "t", "/", "x", "-", "r", "e", "a", "d", "m", "e">>
p_gz == <<"*", ".", "g", "z">>
p_targz == <<"*", ".", "t", "a", "r", ".", "g", "z">>
p_tar_any == <<"*", ".", "t", "a", "r", ".", "*">>
p_txt == <<"*", ".", "t", "x", "t">>
p_readme == <<"R", "E", "A", "D", "M", "E", "*">>
fn_archive == <<"a", "r", "c", "h", "i", "v", "e", ".", "t", "a", "r", ".", "g", "z">>
fn_notes == <<"n", "o", "t", "e", "s", ".", "t", "x", "t">>
fn_readme == <<"R", "E", "A", "D", "M", "E", ".", "t", "x", "t">>
fn_plain == <<"M", "a", "k", "e", "f", "i", "l", "e">>
GlobRecords ==
    {Rec(50, mt_gzip, p_gz), Rec(50, mt_targz, p_targz),
     Rec(50, mt_generic, p_tar_any), Rec(60, mt_generic, p_tar_any),
     Rec(0, mt_text, p_txt), Rec(40, mt_readme, p_readme)}
GlobDBs ==
    {db \in SeqsUpTo(GlobRecords, MaxGlobRecords) :
        \A i \in 1..(Len(db) - 1) : db[i].score >= db[i + 1].score}
FileNames == {fn_archive, fn_notes, fn_readme, fn_plain}


(***************************************************************************)
(* MenuItemDetailEntry::exec_with_filenames.                               *)
(***************************************************************************)
\* str::replace('\'', "\\\'")
RECURSIVE replace_quote(_)
replace_quote(p) ==
    IF p = <<>> THEN <<>>
    ELSE (IF Head(p) = "'" THEN <<"\\", "'">> ELSE <<Head(p)>>) \o replace_quote(Tail(p))
b_file_url == <<"f", "i", "l", "e", ":", "/", "/">>
\* the closure escape_path, m being the marker matched
escape_path(m, p) ==
    LET s == replace_quote(p)
    IN IF m = <<"%", "U">> \/ m = <<"%", "u">>
       THEN <<"\"">> \o b_file_url \o s \o <<"\"">>
       ELSE <<"\"">> \o s \o <<"\"">>

\* marker_regex.find_iter(&self.exec) from the 1-based position i on: the
\* matches of %[uUfF%], leftmost first and not overlapping, with 0-based
\* start and end
RECURSIVE find_iter(_, _)
find_iter(e, i) ==
    IF i >= Len(e) THEN <<>>
    ELSE IF e[i] = "%" /\ e[i + 1] \in {"u", "U", "f", "F", "%"}
    THEN <<[start |-> i - 1, end |-> i + 1, str |-> <<e[i], e[i + 1]>>]>>
         \o find_iter(e, i + 2)
    ELSE find_iter(e, i + 1)

\* paths.iter().map(escape_path).fold(String::new(), |a, b| a + " " + b)
RECURSIVE fold_paths(_, _, _)
fold_paths(m, ps, a) ==
    IF ps = <<>> THEN a
    ELSE fold_paths(m, Tail(ps), a \o <<" ">> \o escape_path(m, Head(ps)))

\* fragments.join("")
RECURSIVE join(_)
join(fragments) ==
    IF fragments = <<>> THEN <<>> ELSE Head(fragments) \o join(Tail(fragments))

\* The for loop over the matches ms of one pass of the while loop: the
\* fragments, next_path_id, and whether paths[next_path_id] was out of range
RECURSIVE exec_fragments(_, _, _, _, _, _)
exec_fragments(e, ps, ms, sstart, fragments, id) ==
    IF ms = <<>> THEN [fragments |-> fragments, next_path_id |-> id, panicked |-> FALSE]
    ELSE LET m == Head(ms)
             f1 == Append(fragments, SubSeq(e, sstart + 1, m.start))
         IN IF m.str = <<"%", "U">> \/ m.str = <<"%", "F">>
            THEN exec_fragments(e, ps, Tail(ms), m.end,
                                Append(f1, fold_paths(m.str, ps, <<>>)), Len(ps))
            ELSE IF m.str = <<"%", "u">> \/ m.str = <<"%", "f">>
            THEN IF id >= Len(ps)
                 THEN [fragments |-> f1, next_path_id |-> id, panicked |-> TRUE]
                 ELSE exec_fragments(e, ps, Tail(ms), m.end,
                                     Append(f1, escape_path(m.str, ps[id + 1])), id + 1)
            ELSE exec_fragments(e, ps, Tail(ms), m.end, f1, id)

\* One pass of the while loop of exec_with_filenames
exec_pass(e, ps, id) == exec_fragments(e, ps, find_iter(e, 1), 0, <<>>, id)

\* The Exec lines and the paths exec_with_filenames is called with
e_plain == <<"c">>
e_f == <<"c", " ", "%", "f">>
e_F == <<"c", " ", "%", "F">>
e_u == <<"c", " ", "%", "u">>
e_U == <<"c", " ", "%", "U">>
e_percent == <<"c", " ", "%", "%">>
e_ff == <<"c", " ", "%", "f", " ", "%", "f">>
e_f_tail == <<"c", " ", "%", "f", " ", "-", "x">>
Execs == {e_plain, e_f, e_F, e_u, e_U, e_percent, e_ff, e_f_tail}
p_a == <<"/", "a">>
p_quote == <<"/", "b", "'">>
MaxPaths == 3
PathLists == SeqsUpTo({p_a, p_quote}, MaxPaths) \ {<<>>}

(***************************************************************************)
(* The icon resolver (src/src/icon.rs), for one icon name.  An             *)
(* IconDescription is [scalable, size, scale]; an IconDir is [path, desc], *)
(* its path being the position of its size directory in icon_fs.  A size   *)
(* directory of icon_fs is [theme, name, svg, png]: the theme directory it *)
(* is in, its file name, and what name.svg and name.png are in its one     *)
(* subdirectory: "none", a regular "file", or a "link" that does not lead  *)
(* to a regular file.                                                      *)
(***************************************************************************)
Scalable == [scalable |-> TRUE, size |-> 0, scale |-> 0]
Bitmap(size, scale) == [scalable |-> FALSE, size |-> size, scale |-> scale]
\* usize::max_value(), above every size*scale of the model
UsizeMax == 1000000
icon_size(desc) == IF desc.scalable THEN UsizeMax ELSE desc.size * desc.scale

\* The bytes [0-9] and usize::from_str_radix(_, 10)
Digits == {"0", "1", "2", "3", "4", "5", "6", "7", "8", "9"}
DigitVal(c) == CHOOSE v \in 0..9 : <<"0", "1", "2", "3", "4", "5", "6", "7", "8", "9">>[v + 1] = c
RECURSIVE DigitsLen(_, _)
DigitsLen(s, i) ==
    IF i <= Len(s) /\ s[i] \in Digits THEN 1 + DigitsLen(s, i + 1) ELSE 0
RECURSIVE from_str_radix(_, _)
from_str_radix(s, acc) ==
    IF s = <<>> THEN acc ELSE from_str_radix(Tail(s), acc * 10 + DigitVal(Head(s)))

\* The match of (?<size>[0-9]+)x[0-9]+(?:@(?<scale>[0-9]+))? that starts at i
desc_match_at(s, i) ==
    LET n1 == DigitsLen(s, i)
        x == i + n1
        n2 == DigitsLen(s, x + 1)
        at == x + 1 + n2
        n3 == DigitsLen(s, at + 1)
    IN IF n1 >= 1 /\ x <= Len(s) /\ s[x] = "x" /\ n2 >= 1
       THEN [some |-> TRUE, size |-> SubSeq(s, i, x - 1),
             scale |-> IF at <= Len(s) /\ s[at] = "@" /\ n3 >= 1
                       THEN SubSeq(s, at + 1, at + n3) ELSE <<>>]
       ELSE [some |-> FALSE, size |-> <<>>, scale |-> <<>>]

b_scalable == <<"s", "c", "a", "l", "a", "b", "l", "e">>
NoDesc == [some |-> FALSE, desc |-> Scalable]
parse_desc(s) ==
    IF s = b_scalable
    THEN [some |-> TRUE, desc |-> Scalable]
    ELSE LET starts == {i \in 1..Len(s) : desc_match_at(s, i).some}
         IN IF starts = {} THEN NoDesc
            ELSE LET m == desc_match_at(s, CHOOSE i \in starts : \A j \in starts : i <= j)
                 IN [some |-> TRUE,
                     desc |-> Bitmap(from_str_radix(m.size, 0),
                                     IF m.scale # <<>> THEN from_str_radix(m.scale, 0) ELSE 1)]

IconDir(path, desc) == [path |-> path, desc |-> desc]
NoIcon == [some |-> FALSE, desc |-> Scalable, dir |-> 0, suffix |-> <<>>]
SomeIcon(desc, dir, suffix) == [some |-> TRUE, desc |-> desc, dir |-> dir, suffix |-> suffix]
b_svg == <<".", "s", "v", "g">>
b_png == <<".", "p", "n", "g">>

\* Path::is_file and Path::is_symlink of <dir>/name<suffix>
FileKind(tree, dir, suffix) == IF suffix = b_svg THEN tree[dir].svg ELSE tree[dir].png
is_file(tree, dir, suffix) == FileKind(tree, dir, suffix) = "file"
is_symlink(tree, dir, suffix) == FileKind(tree, dir, suffix) = "link"

\* IconTheme::scan_dir for the size directory at position k
scan_dir(th, tree, k, desc) ==
    LET dir == IconDir(k, desc)
        key == desc.size * desc.scale
    IN IF desc.scalable
       THEN [th EXCEPT !.scalable_dirs = Append(@, dir)]
       ELSE IF Has(th.bitmap_dirs, key)
       THEN [th EXCEPT !.bitmap_dirs[key] = Append(@, dir)]
       ELSE [th EXCEPT !.bitmap_dirs = MapInsert(@, key, <<dir>>)]

\* IconTheme::new over the size directories of theme directory t, from k on
RECURSIVE IconTheme_scan(_, _, _, _)
IconTheme_scan(th, tree, t, k) ==
    IF k > Len(tree) THEN th
    ELSE IF tree[k].theme = t /\ parse_desc(tree[k].name).some
    THEN IconTheme_scan(scan_dir(th, tree, k, parse_desc(tree[k].name).desc), tree, t, k + 1)
    ELSE IconTheme_scan(th, tree, t, k + 1)
IconTheme_new(tree, t) ==
    IconTheme_scan([scalable_dirs |-> <<>>, bitmap_dirs |-> EmptyMap], tree, t, 1)

\* The first directory of dirs, from position i on, holding name<suffix> as
\* the bitmap loop of find_icon_pred accepts it
RECURSIVE bitmap_hit(_, _, _, _, _)
bitmap_hit(tree, dirs, i, suffix, pred) ==
    IF i > Len(dirs) THEN NoIcon
    ELSE LET it == dirs[i] IN
         IF is_file(tree, it.path, suffix)
            \/ (is_symlink(tree, it.path, suffix) /\ it.desc \in pred)
         THEN SomeIcon(it.desc, it.path, suffix)
         ELSE bitmap_hit(tree, dirs, i + 1, suffix, pred)

RECURSIVE scalable_hit(_, _, _, _)
scalable_hit(tree, dirs, i, pred) ==
    IF i > Len(dirs) THEN NoIcon
    ELSE LET it == dirs[i] IN
         IF (is_file(tree, it.path, b_svg) \/ is_symlink(tree, it.path, b_svg))
            /\ it.desc \in pred
         THEN SomeIcon(it.desc, it.path, b_svg)
         ELSE scalable_hit(tree, dirs, i + 1, pred)

\* bitmap_dirs.range(real_size..), in ascending order of the key
RECURSIVE bitmap_range(_, _, _, _)
bitmap_range(tree, th, keys, pred) ==
    IF keys = {} THEN NoIcon
    ELSE LET key == CHOOSE k \in keys : \A j \in keys : k <= j
             svg == bitmap_hit(tree, th.bitmap_dirs[key], 1, b_svg, pred)
             png == bitmap_hit(tree, th.bitmap_dirs[key], 1, b_png, pred)
         IN IF svg.some THEN svg
            ELSE IF png.some THEN png
            ELSE bitmap_range(tree, th, keys \ {key}, pred)

\* A resolver that walks every bitmap bucket, whatever size is asked for
IconTheme_find_icon_pred_any_bucket(tree, th, real_size, pred) ==
    LET sc == scalable_hit(tree, th.scalable_dirs, 1, pred)
    IN IF sc.some THEN sc
       ELSE bitmap_range(tree, th, DOMAIN th.bitmap_dirs, pred)

\* IconTheme::find_icon_pred; pred is the set of descriptions it accepts
IconTheme_find_icon_pred(tree, th, real_size, pred) ==
    LET sc == scalable_hit(tree, th.scalable_dirs, 1, pred)
    IN IF sc.some THEN sc
       ELSE bitmap_range(tree, th,
                         {k \in DOMAIN th.bitmap_dirs : k >= real_size}, pred)

\* IconCollection::find_icon_pred
RECURSIVE find_icon_pred(_, _, _, _, _)
find_icon_pred(tree, ths, i, real_size, pred) ==
    IF i > Len(ths) THEN NoIcon
    ELSE LET q == IconTheme_find_icon_pred(tree, ths[i], real_size, pred)
         IN IF q.some THEN q ELSE find_icon_pred(tree, ths, i + 1, real_size, pred)

\* The theme directories scan_with_theme reads, the size directories under
\* them and the queries
NumThemes == 2
MaxIconDirs == 2
d_scalable == b_scalable
d_16 == <<"1", "6", "x", "1", "6">>
d_32 == <<"3", "2", "x", "3", "2">>
d_16at2 == <<"1", "6", "x", "1", "6", "@", "2">>
d_symbolic == <<"s", "y", "m", "b", "o", "l", "i", "c">>
SizeDirNames == {d_scalable, d_16, d_32, d_16at2, d_symbolic}
IconDescs == {parse_desc(n).desc : n \in {m \in SizeDirNames : parse_desc(m).some}}
IconFiles ==
    {[svg |-> "none", png |-> "file"], [svg |-> "file", png |-> "none"],
     [svg |-> "link", png |-> "none"], [svg |-> "none", png |-> "none"]}
SizeDirs ==
    {[theme |-> t, name |-> n, svg |-> f.svg, png |-> f.png] :
        t \in 1..NumThemes, n \in SizeDirNames, f \in IconFiles}
IconTrees ==
    {tree \in SeqsUpTo(SizeDirs, MaxIconDirs) :
        \A i \in 1..(Len(tree) - 1) : tree[i].theme <= tree[i + 1].theme}
IconSizes == {16, 24, 32}
\* |_| true, as find_icon passes it, and two callers' choices
PredAny == IconDescs
PredBitmap == IconDescs \ {Scalable}
PredScalable == {Scalable}
IconPreds == {PredAny, PredBitmap, PredScalable}

(***************************************************************************)
(* The files scanned.  A file system is a sequence of roots, in scan       *)
(* order; a root is                                                        *)
(*   [apps, has_mimeapps, mimeapps, dirs, is_local]:                       *)
(* the files of applications/ in read_dir order, applications/mimeapps.list *)
(* when it can be opened, the files of desktop-directories/, and whether   *)
(* applications/ is $HOME/.local/share/applications.                       *)
(***************************************************************************)
\* "foo"
s_foo ==
    <<"f", "o", "o">>
\* "x"
s_x ==
    <<"x">>
\* "U"
s_U ==
    <<"U">>
\* "N"
s_N ==
    <<"N">>
\* "a/m"
m_am ==
    <<"a", "/", "m">>
\* "b/m"
m_bm ==
    <<"b", "/", "m">>
\* "[Desktop Entry]\nName=A\nExec=/bin/a %f\nCategories=U;\nMimeType=a/m;\n"
app_U ==
    <<"[", "D", "e", "s", "k", "t", "o", "p", " ", "E", "n", "t", "r", "y",
      "]", NL, "N", "a", "m", "e", "=", "A", NL, "E", "x", "e", "c", "=",
      "/", "b", "i", "n", "/", "a", " ", "%", "f", NL, "C", "a", "t", "e",
      "g", "o", "r", "i", "e", "s", "=", "U", ";", NL, "M", "i", "m", "e",
      "T", "y", "p", "e", "=", "a", "/", "m", ";", NL>>
\* "[Desktop Entry]\nName=B\nCategories=N;\nNoDisplay=True\n[Desktop Action n]\nName=Z\n"
app_N_hidden ==
    <<"[", "D", "e", "s", "k", "t", "o", "p", " ", "E", "n", "t", "r", "y",
      "]", NL, "N", "a", "m", "e", "=", "B", NL, "C", "a", "t", "e", "g",
      "o", "r", "i", "e", "s", "=", "N", ";", NL, "N", "o", "D", "i", "s",
      "p", "l", "a", "y", "=", "T", "r", "u", "e", NL, "[", "D", "e", "s",
      "k", "t", "o", "p", " ", "A", "c", "t", "i", "o", "n", " ", "n", "]",
      NL, "N", "a", "m", "e", "=", "Z", NL>>
\* "[Desktop Entry]\nName=C\nCategories=U;\n[X-Ext]\nName=Z\nCategories=N;\n"
app_unrec ==
    <<"[", "D", "e", "s", "k", "t", "o", "p", " ", "E", "n", "t", "r", "y",
      "]", NL, "N", "a", "m", "e", "=", "C", NL, "C", "a", "t", "e", "g",
      "o", "r", "i", "e", "s", "=", "U", ";", NL, "[", "X", "-", "E", "x",
      "t", "]", NL, "N", "a", "m", "e", "=", "Z", NL, "C", "a", "t", "e",
      "g", "o", "r", "i", "e", "s", "=", "N", ";", NL>>
\* "Name=D\n"
app_nohdr ==
    <<"N", "a", "m", "e", "=", "D", NL>>
\* "[Desktop Entry]\nName\n"
bad_key ==
    <<"[", "D", "e", "s", "k", "t", "o", "p", " ", "E", "n", "t", "r", "y",
      "]", NL, "N", "a", "m", "e", NL>>
\* "[Desktop Entry\nName=A\n"
bad_header ==
    <<"[", "D", "e", "s", "k", "t", "o", "p", " ", "E", "n", "t", "r", "y",
      NL, "N", "a", "m", "e", "=", "A", NL>>
\* "[Desktop Entry]\nName=A\n#end"
bad_comment ==
    <<"[", "D", "e", "s", "k", "t", "o", "p", " ", "E", "n", "t", "r", "y",
      "]", NL, "N", "a", "m", "e", "=", "A", NL, "#", "e", "n", "d">>
\* "[Desktop Entry]\nName=A\n  "
bad_spaces ==
    <<"[", "D", "e", "s", "k", "t", "o", "p", " ", "E", "n", "t", "r", "y",
      "]", NL, "N", "a", "m", "e", "=", "A", NL, " ", " ">>
\* "[Desktop Entry]\nType=Directory\nName=M\n"
dir_plain ==
    <<"[", "D", "e", "s", "k", "t", "o", "p", " ", "E", "n", "t", "r", "y",
      "]", NL, "T", "y", "p", "e", "=", "D", "i", "r", "e", "c", "t", "o",
      "r", "y", NL, "N", "a", "m", "e", "=", "M", NL>>
\* "[Desktop Entry]\nType=Directory\nName=S\nCategories=U;\n"
dir_inU ==
    <<"[", "D", "e", "s", "k", "t", "o", "p", " ", "E", "n", "t", "r", "y",
      "]", NL, "T", "y", "p", "e", "=", "D", "i", "r", "e", "c", "t", "o",
      "r", "y", NL, "N", "a", "m", "e", "=", "S", NL, "C", "a", "t", "e",
      "g", "o", "r", "i", "e", "s", "=", "U", ";", NL>>
\* "[Default Applications]\na/m=foo.desktop\n"
ma_def_foo ==
    <<"[", "D", "e", "f", "a", "u", "l", "t", " ", "A", "p", "p", "l", "i",
      "c", "a", "t", "i", "o", "n", "s", "]", NL, "a", "/", "m", "=", "f",
      "o", "o", ".", "d", "e", "s", "k", "t", "o", "p", NL>>
\* "[Default Applications]\na/m=x.desktop\n"
ma_def_x ==
    <<"[", "D", "e", "f", "a", "u", "l", "t", " ", "A", "p", "p", "l", "i",
      "c", "a", "t", "i", "o", "n", "s", "]", NL, "a", "/", "m", "=", "x",
      ".", "d", "e", "s", "k", "t", "o", "p", NL>>
\* "[Add Associations]\na/m=x.desktop\n"
ma_add ==
    <<"[", "A", "d", "d", " ", "A", "s", "s", "o", "c", "i", "a", "t", "i",
      "o", "n", "s", "]", NL, "a", "/", "m", "=", "x", ".", "d", "e", "s",
      "k", "t", "o", "p", NL>>
\* "[Removed Associations]\na/m=x.desktop\n"
ma_rem ==
    <<"[", "R", "e", "m", "o", "v", "e", "d", " ", "A", "s", "s", "o", "c",
      "i", "a", "t", "i", "o", "n", "s", "]", NL, "a", "/", "m", "=", "x",
      ".", "d", "e", "s", "k", "t", "o", "p", NL>>
\* "[Add Associations]\nb/m=x.desktop;foo.desktop;\n[Default Applications]\nb/m=nosuch.desktop\n[Add Associations]\na/m=foo.desktop\n"
ma_mixed ==
    <<"[", "A", "d", "d", " ", "A", "s", "s", "o", "c", "i", "a", "t", "i",
      "o", "n", "s", "]", NL, "b", "/", "m", "=", "x", ".", "d", "e", "s",
      "k", "t", "o", "p", ";", "f", "o", "o", ".", "d", "e", "s", "k", "t",
      "o", "p", ";", NL, "[", "D", "e", "f", "a", "u", "l", "t", " ", "A",
      "p", "p", "l", "i", "c", "a", "t", "i", "o", "n", "s", "]", NL, "b",
      "/", "m", "=", "n", "o", "s", "u", "c", "h", ".", "d", "e", "s", "k",
      "t", "o", "p", NL, "[", "A", "d", "d", " ", "A", "s", "s", "o", "c",
      "i", "a", "t", "i", "o", "n", "s", "]", NL, "a", "/", "m", "=", "f",
      "o", "o", ".", "d", "e", "s", "k", "t", "o", "p", NL>>
\* "[Default Applications]\na/m=foo.desktop\n[X-Ext]\nb/m=x.desktop\n"
ma_unrec ==
    <<"[", "D", "e", "f", "a", "u", "l", "t", " ", "A", "p", "p", "l", "i",
      "c", "a", "t", "i", "o", "n", "s", "]", NL, "a", "/", "m", "=", "f",
      "o", "o", ".", "d", "e", "s", "k", "t", "o", "p", NL, "[", "X", "-",
      "E", "x", "t", "]", NL, "b", "/", "m", "=", "x", ".", "d", "e", "s",
      "k", "t", "o", "p", NL>>

F(stem, bytes) == [stem |-> stem, bytes |-> bytes]
Root(apps, has_mimeapps, mimeapps, dirs, is_local) ==
    [apps |-> apps, has_mimeapps |-> has_mimeapps, mimeapps |-> mimeapps,
     dirs |-> dirs, is_local |-> is_local]

\* Bounds: the roots of a file system, and the calls of change_default_assoc
\* in one run
MaxMenuRoots == 2
MaxAssocRoots == 3
MaxChanges == 1
\* Depth of Menu::print's recursion at which the model stops following it; the
\* acyclic category graphs of MaxMenuRoots directory files stay below it
MaxDepth == MaxMenuRoots + 2

\* The roots of the menu file systems: at most one entry and one directory
\* file of each shape the parser distinguishes (the root of the hidden entry
\* also names it a default), and the four malformed endings of a file
GoodApps ==
    {<<>>, <<F(s_foo, app_U)>>, <<F(s_foo, app_N_hidden)>>,
     <<F(s_x, app_unrec)>>, <<F(s_x, app_nohdr)>>}
BadApps ==
    {<<F(s_x, bad_key), F(s_foo, app_U)>>, <<F(s_x, bad_header)>>,
     <<F(s_x, bad_comment)>>, <<F(s_x, bad_spaces)>>}
MenuDirs ==
    {<<>>, <<F(s_U, dir_plain)>>, <<F(s_N, dir_inU)>>, <<F(s_U, dir_inU)>>}
MenuRoots ==
    {Root(a, a = <<F(s_foo, app_N_hidden)>>, ma_unrec, d, FALSE) :
        a \in GoodApps, d \in MenuDirs}
    \cup {Root(a, FALSE, <<>>, <<>>, FALSE) : a \in BadApps}

FSMenu == SeqsUpTo(MenuRoots, MaxMenuRoots)

\* The association file systems: two entries in the first root, a
\* mimeapps.list in every later root, the last root being the local one or not
AssocPool == {ma_def_foo, ma_def_x, ma_add, ma_rem, ma_mixed}
AssocApps == <<F(s_foo, app_U), F(s_x, app_N_hidden)>>
AssocRootsFirst ==
    {Root(AssocApps, TRUE, m, <<>>, FALSE) : m \in AssocPool}
    \cup {Root(AssocApps, FALSE, <<>>, <<>>, FALSE)}
AssocRootsLater == {Root(<<>>, TRUE, m, <<>>, FALSE) : m \in AssocPool}
FSAssoc ==
    {[f EXCEPT ![Len(f)].is_local = loc] :
        f \in {g \in UNION {[1..k -> AssocRootsFirst \cup AssocRootsLater] :
                               k \in 1..MaxAssocRoots} :
                 /\ g[1] \in AssocRootsFirst
                 /\ \A i \in 2..Len(g) : g[i] \in AssocRootsLater},
        loc \in BOOLEAN}

\* "[Desktop Entry]\nType=Directory\nName=S\nCategories=U;N;\n"
dir_inUN ==
    <<"[", "D", "e", "s", "k", "t", "o", "p", " ", "E", "n", "t", "r", "y",
      "]", NL, "T", "y", "p", "e", "=", "D", "i", "r", "e", "c", "t", "o",
      "r", "y", NL, "N", "a", "m", "e", "=", "S", NL, "C", "a", "t", "e",
      "g", "o", "r", "i", "e", "s", "=", "U", ";", "N", ";", NL>>

\* The menu file systems whose directory files name categories freely: a
\* directory file N that is in the category of U, or in that and in its own
MaxCycleRoots == 2
CycleRoots ==
    {Root(a, FALSE, <<>>, d, FALSE) :
        a \in {<<>>, <<F(s_foo, app_U)>>},
        d \in {<<>>, <<F(s_U, dir_plain)>>, <<F(s_N, dir_inU)>>, <<F(s_N, dir_inUN)>>,
               <<F(s_U, dir_plain), F(s_N, dir_inUN)>>}}
FSCycle == SeqsUpTo(CycleRoots, MaxCycleRoots)

\* "a/m=x.desktop\n"
ma_nohdr ==
    <<"a", "/", "m", "=", "x", ".", "d", "e", "s", "k", "t", "o", "p", NL>>
\* "[X-Ext]\na/m=x.desktop\n"
ma_unrec_first ==
    <<"[", "X", "-", "E", "x", "t", "]", NL, "a", "/", "m", "=", "x", ".",
      "d", "e", "s", "k", "t", "o", "p", NL>>

\* The association file systems of two roots whose second mimeapps.list has
\* key lines before any header, or under a header of no known name
StalePool == {ma_nohdr, ma_unrec_first, ma_def_x}
FSStale ==
    {<<Root(AssocApps, TRUE, m1, <<>>, FALSE), Root(<<>>, TRUE, m2, <<>>, loc)>> :
        m1 \in AssocPool, m2 \in StalePool, loc \in BOOLEAN}

\* The menu file systems for the connect pass: an entry in the category U, an
\* entry with no category, an entry in U whose file is named as the Others
\* bucket is, and directory files in no, one or two categories
MaxConnectRoots == 2
ConnectRoots ==
    {Root(a, FALSE, <<>>, d, FALSE) :
        a \in {<<>>, <<F(s_foo, app_U)>>, <<F(s_x, app_nohdr)>>,
               <<F(b_other_apps, app_U)>>},
        d \in {<<>>, <<F(s_U, dir_plain)>>, <<F(s_N, dir_inU)>>, <<F(s_N, dir_inUN)>>}}
FSConnect == SeqsUpTo(ConnectRoots, MaxConnectRoots)

\* The file systems scanned more than once: one entry or none, and no
\* directory file, one of its own name, or one named as the Others bucket is
MaxRescanRoots == 1
MaxRescans == 1
RescanRoots ==
    {Root(a, a # <<>>, ma_def_foo, d, FALSE) :
        a \in {<<>>, <<F(s_foo, app_U)>>},
        d \in {<<>>, <<F(s_U, dir_plain)>>, <<F(b_other_apps, dir_plain)>>}}
FSRescan == SeqsUpTo(RescanRoots, MaxRescanRoots) \ {<<>>}

\* The MIME types change_default_assoc is called with
Mimes == {m_am, m_bm}

(***************************************************************************)
(* The state.                                                              *)
(***************************************************************************)
VARIABLES
    fs,                 \* the files under the scanned roots
    index,              \* MenuIndex.index: category key -> Menu
    mime_assoc_index,   \* MenuIndex.mime_assoc_index: MIME type -> MenuAssociation
    items,              \* MenuIndex.items, the arena
    local_assocs,       \* MenuIndex.local_assocs
    filename_index,     \* MenuIndex.filename_index: file name -> arena index
    desk_parser,        \* MenuIndex.desk_parser
    assoc_parser,       \* MenuIndex.assoc_parser
    pc,                 \* where the caller is
    root,               \* scan_all: the number of the root being scanned
    file,               \* scan_prefix_path: files of the directory read so far
    nchanges,           \* calls of change_default_assoc so far
    last,               \* the latest step: what it was given and what it returned
    stack,              \* Menu::print: the active calls, [key, pos]
    calls,              \* Menu::print: the visitor calls made so far
    globs2,             \* the records of the glob database
    glob_index,         \* the MIMEGlobIndex, once built
    gpc,                \* where the caller of the matcher is
    query,              \* match_filename: the file name asked for
    result,             \* match_filename: what it returned
    nscans,             \* calls of scan_all after the first
    icon_fs,            \* the size directories under the scanned theme directories
    themes,             \* IconCollection.themes
    ipc,                \* where the caller of the icon resolver is
    iquery,             \* find_icon_pred: the size and the predicate asked for
    iresult,            \* find_icon_pred: what it returned
    buf,                \* the bytes of the file DesktopFile::parse maps
    ppc,                \* where the caller of DesktopFile::parse is
    pout,               \* the callbacks of the first parse of buf
    pout2,              \* the callbacks of the latest further parse of buf
    exec,               \* exec_with_filenames: self.exec
    paths,              \* exec_with_filenames: paths
    next_path_id,       \* exec_with_filenames: next_path_id
    eresult,            \* exec_with_filenames: result
    epc                 \* where exec_with_filenames is

mivars == <<index, mime_assoc_index, items, local_assocs, filename_index,
            desk_parser, assoc_parser>>
menuvars == <<fs, index, mime_assoc_index, items, local_assocs, filename_index,
              desk_parser, assoc_parser, pc, root, file, nchanges, last,
              stack, calls, nscans>>
globvars == <<globs2, glob_index, gpc, query, result>>
iconvars == <<icon_fs, themes, ipc, iquery, iresult>>
parsevars == <<buf, ppc, pout, pout2>>
execvars == <<exec, paths, next_path_id, eresult, epc>>
vars == <<menuvars, globvars, iconvars, parsevars, execvars>>

\* The MenuIndex struct of the current state, and the next state's
MI ==
    [index |-> index, mime_assoc_index |-> mime_assoc_index, items |-> items,
     local_assocs |-> local_assocs, filename_index |-> filename_index,
     desk_parser |-> desk_parser, assoc_parser |-> assoc_parser]
SetMI(mi) ==
    /\ index' = mi.index
    /\ mime_assoc_index' = mi.mime_assoc_index
    /\ items' = mi.items
    /\ local_assocs' = mi.local_assocs
    /\ filename_index' = mi.filename_index
    /\ desk_parser' = mi.desk_parser
    /\ assoc_parser' = mi.assoc_parser

LastNone ==
    [op |-> "none", stem |-> <<>>, bytes |-> <<>>, pushed |-> FALSE,
     assocs |-> <<>>, mime |-> <<>>, idx |-> None]

\* let mut index = MenuIndex::new_default();
InitIndex ==
    /\ index = MenuIndex_new_default.index
    /\ mime_assoc_index = MenuIndex_new_default.mime_assoc_index
    /\ items = MenuIndex_new_default.items
    /\ local_assocs = MenuIndex_new_default.local_assocs
    /\ filename_index = MenuIndex_new_default.filename_index
    /\ desk_parser = MenuIndex_new_default.desk_parser
    /\ assoc_parser = MenuIndex_new_default.assoc_parser
    /\ pc = "new"
    /\ root = 0
    /\ file = 0
    /\ nchanges = 0
    /\ last = LastNone
    /\ stack = <<>>
    /\ calls = <<>>
    /\ nscans = 0

\* No glob index is built
InitNoGlob ==
    /\ globs2 = <<>>
    /\ glob_index = MIMEGlobIndex_new(<<>>)
    /\ gpc = "none"
    /\ query = <<>>
    /\ result = [some |-> FALSE, mime |-> <<>>]

\* No icon collection is built
InitNoIcon ==
    /\ icon_fs = <<>>
    /\ themes = <<>>
    /\ ipc = "none"
    /\ iquery = [size |-> 0, pred |-> {}]
    /\ iresult = NoIcon

\* No file is parsed on its own, and exec_with_filenames is not called
NoEvents == [events |-> <<>>, panicked |-> FALSE]
InitNoParse ==
    /\ buf = <<>>
    /\ ppc = "none"
    /\ pout = NoEvents
    /\ pout2 = NoEvents
InitNoExec ==
    /\ exec = <<>>
    /\ paths = <<>>
    /\ next_path_id = 0
    /\ eresult = <<>>
    /\ epc = "none"

InitMenu ==
    /\ fs \in FSMenu
    /\ InitIndex
    /\ InitNoGlob
    /\ InitNoIcon
    /\ InitNoParse
    /\ InitNoExec

InitAssoc ==
    /\ fs \in FSAssoc
    /\ InitIndex
    /\ InitNoGlob
    /\ InitNoIcon
    /\ InitNoParse
    /\ InitNoExec

(***************************************************************************)
(* scan_all, one step per file.                                            *)
(***************************************************************************)
\* scan_all up to the loop over the roots, called once on the index that
\* MenuIndex::new_default returned, as index.scan() in both front ends
ScanAllBegin ==
    /\ pc = "new"
    /\ SetMI(desk_parser_reset(MI).mi)
    /\ pc' = "roots"
    /\ root' = 0
    /\ file' = 0
    /\ last' = LastNone
    /\ UNCHANGED <<fs, nchanges, stack, calls, nscans, globvars, iconvars, parsevars, execvars>>

\* the loop over the roots takes the next root
ScanNextRoot ==
    /\ pc = "roots"
    /\ root < Len(fs)
    /\ root' = root + 1
    /\ file' = 0
    /\ pc' = "apps"
    /\ last' = LastNone
    /\ UNCHANGED <<fs, mivars, nchanges, stack, calls, nscans, globvars, iconvars, parsevars, execvars>>

\* scan_prefix_path parses the next file of applications/ or desktop-directories/
ScanFile ==
    /\ pc \in {"apps", "dirs"}
    /\ LET listing == IF pc = "apps" THEN fs[root].apps ELSE fs[root].dirs
           ext == IF pc = "apps" THEN b_desktop ELSE b_directory
       IN /\ file < Len(listing)
          /\ LET f == listing[file + 1]
                 r == scan_entry_file(MI, f.stem, ext, f.bytes)
             IN /\ SetMI(r.mi)
                /\ pc' = IF r.panicked THEN "panicked" ELSE pc
                /\ last' = [LastNone EXCEPT !.op = "file", !.stem = f.stem,
                                            !.bytes = f.bytes,
                                            !.pushed = Len(r.mi.items) > Len(items)]
    /\ file' = file + 1
    /\ UNCHANGED <<fs, root, nchanges, stack, calls, nscans, globvars, iconvars, parsevars, execvars>>

\* scan_prefix_path after the files of applications/: mimeapps.list, if any
ScanMimeapps ==
    /\ pc = "apps"
    /\ file = Len(fs[root].apps)
    /\ IF fs[root].has_mimeapps
       THEN LET r == scan_mimeapps(MI, fs[root].mimeapps, fs[root].is_local)
            IN /\ SetMI(r.mi)
               /\ pc' = IF r.panicked THEN "panicked" ELSE "dirs"
               /\ last' = [LastNone EXCEPT !.op = "mimeapps",
                                           !.bytes = fs[root].mimeapps,
                                           !.assocs = r.assocs]
       ELSE /\ pc' = "dirs"
            /\ last' = LastNone
            /\ UNCHANGED mivars
    /\ file' = 0
    /\ UNCHANGED <<fs, root, nchanges, stack, calls, nscans, globvars, iconvars, parsevars, execvars>>

\* scan_prefix_path returns
ScanRootDone ==
    /\ pc = "dirs"
    /\ file = Len(fs[root].dirs)
    /\ pc' = "roots"
    /\ last' = LastNone
    /\ UNCHANGED <<fs, mivars, root, file, nchanges, stack, calls, nscans, globvars, iconvars, parsevars, execvars>>

\* scan_all after the last root
ScanAllFinish ==
    /\ pc = "roots"
    /\ root = Len(fs)
    /\ SetMI(scan_all_finish(MI))
    /\ pc' = "idle"
    /\ last' = LastNone
    /\ UNCHANGED <<fs, root, file, nchanges, stack, calls, nscans, globvars, iconvars, parsevars, execvars>>

(***************************************************************************)
(* change_default_assoc and write_default_assoc.                           *)
(***************************************************************************)
ChangeDefaultAssoc ==
    /\ pc = "idle"
    /\ nchanges < MaxChanges
    /\ \E mime \in Mimes, idx \in 0..(Len(items) - 1) :
          /\ SetMI(change_default_assoc(MI, mime, idx))
          /\ last' = [LastNone EXCEPT !.op = "change", !.mime = mime, !.idx = idx]
    /\ nchanges' = nchanges + 1
    /\ UNCHANGED <<fs, pc, root, file, stack, calls, nscans, globvars, iconvars, parsevars, execvars>>

\* The file written is the mimeapps.list of the local root
WriteDefaultAssoc ==
    /\ pc = "idle"
    /\ last.op # "write"
    /\ LET bytes == write_default_assoc(MI)
       IN /\ fs' = [i \in DOMAIN fs |->
                      IF fs[i].is_local
                      THEN [fs[i] EXCEPT !.has_mimeapps = TRUE, !.mimeapps = bytes]
                      ELSE fs[i]]
          /\ last' = [LastNone EXCEPT !.op = "write", !.bytes = bytes]
    /\ UNCHANGED <<mivars, pc, root, file, nchanges, stack, calls, nscans, globvars, iconvars, parsevars, execvars>>

(***************************************************************************)
(* MenuIndex::print and Menu::print, one step per child.                   *)
(***************************************************************************)
Call(op, item) == [op |-> op, item |-> item]

\* Menu::print without its early return on a menu that has no children
menu_print_enter_always(key) ==
    LET menu == index[key]
    IN [calls |-> <<Call("print", menu.item_idx),
                    Call("enter_menu", menu.item_idx)>>,
        entered |-> TRUE]

\* Menu::print without printer.print(menu_ref) ahead of enter_menu
menu_print_enter_silent(key) ==
    LET menu == index[key]
    IN IF menu.children = <<>> THEN [calls |-> <<>>, entered |-> FALSE]
       ELSE [calls |-> <<Call("enter_menu", menu.item_idx)>>, entered |-> TRUE]

\* Menu::print on the menu at `key`, up to its loop: the visitor calls it
\* makes, and whether it goes on to its children
menu_print_enter(key) ==
    LET menu == index[key]
    IN IF menu.children = <<>> THEN [calls |-> <<>>, entered |-> FALSE]
       ELSE [calls |-> <<Call("print", menu.item_idx),
                         Call("enter_menu", menu.item_idx)>>,
             entered |-> TRUE]

PrintBegin ==
    /\ pc = "idle"
    /\ LET r == menu_print_enter(<<>>)
       IN /\ calls' = r.calls
          /\ stack' = IF r.entered THEN <<[key |-> <<>>, pos |-> 0]>> ELSE <<>>
          /\ pc' = IF r.entered THEN "print" ELSE "printed"
    /\ last' = LastNone
    /\ UNCHANGED <<fs, mivars, root, file, nchanges, nscans, globvars, iconvars, parsevars, execvars>>

\* the loop of Menu::print takes the next child
PrintChild ==
    /\ pc = "print"
    /\ LET top == stack[Len(stack)]
           menu == index[top.key]
       IN /\ top.pos < Len(menu.children)
          /\ LET idx == menu.children[top.pos + 1]
                 item == items[idx + 1]
                 st == [stack EXCEPT ![Len(stack)].pos = top.pos + 1]
             IN IF item.detail.kind = "Directory"
                THEN IF ~Has(index, item.basename)
                     THEN /\ stack' = st
                          /\ UNCHANGED <<calls, pc>>
                     ELSE LET r == menu_print_enter(item.basename)
                          IN IF ~r.entered
                             THEN /\ stack' = st
                                  /\ UNCHANGED <<calls, pc>>
                             ELSE IF Len(stack) >= MaxDepth
                             THEN /\ pc' = "overflow"
                                  /\ UNCHANGED <<stack, calls>>
                             ELSE /\ stack' = Append(st, [key |-> item.basename, pos |-> 0])
                                  /\ calls' = calls \o r.calls
                                  /\ UNCHANGED pc
                ELSE /\ calls' = Append(calls, Call("print", idx))
                     /\ stack' = st
                     /\ UNCHANGED pc
    /\ UNCHANGED <<fs, mivars, root, file, nchanges, last, nscans, globvars, iconvars, parsevars, execvars>>

\* Menu::print after its last child
PrintLeave ==
    /\ pc = "print"
    /\ LET top == stack[Len(stack)]
           menu == index[top.key]
       IN /\ top.pos = Len(menu.children)
          /\ calls' = Append(calls, Call("leave_menu", menu.item_idx))
          /\ stack' = SubSeq(stack, 1, Len(stack) - 1)
          /\ pc' = IF Len(stack) = 1 THEN "printed" ELSE "print"
    /\ UNCHANGED <<fs, mivars, root, file, nchanges, last, nscans, globvars, iconvars, parsevars, execvars>>

\* MenuIndex::print returns to the caller, which drops the visitor
PrintReturn ==
    /\ pc = "printed"
    /\ pc' = "idle"
    /\ calls' = <<>>
    /\ UNCHANGED <<fs, mivars, root, file, nchanges, last, stack, nscans, globvars, iconvars, parsevars, execvars>>

\* Scanning and printing the menu, as examples/fvwm-desk-menu.rs does.  print
\* reads index and items only, which change_default_assoc never writes.
NextMenu ==
    \/ ScanAllBegin
    \/ ScanNextRoot
    \/ ScanFile
    \/ ScanMimeapps
    \/ ScanRootDone
    \/ ScanAllFinish
    \/ PrintBegin
    \/ PrintChild
    \/ PrintLeave
    \/ PrintReturn

Spec == InitMenu /\ [][NextMenu]_vars

\* The same program over directory files that name categories freely
InitCycle ==
    /\ fs \in FSCycle
    /\ InitIndex
    /\ InitNoGlob
    /\ InitNoIcon
    /\ InitNoParse
    /\ InitNoExec

SpecCycle == InitCycle /\ [][NextMenu]_vars

\* The same program over the file systems for the connect pass
InitConnect ==
    /\ fs \in FSConnect
    /\ InitIndex
    /\ InitNoGlob
    /\ InitNoIcon
    /\ InitNoParse
    /\ InitNoExec

SpecConnect == InitConnect /\ [][NextMenu]_vars

\* Scanning once, choosing defaults and writing them, as examples/xopen.rs does
NextAssoc ==
    \/ ScanAllBegin
    \/ ScanNextRoot
    \/ ScanFile
    \/ ScanMimeapps
    \/ ScanRootDone
    \/ ScanAllFinish
    \/ ChangeDefaultAssoc
    \/ WriteDefaultAssoc

SpecAssoc == InitAssoc /\ [][NextAssoc]_vars

(***************************************************************************)
(* The glob matcher: MIMEGlobIndex::new, then match_filename.              *)
(***************************************************************************)
InitGlob ==
    /\ globs2 \in GlobDBs
    /\ glob_index = MIMEGlobIndex_new(<<>>)
    /\ gpc = "new"
    /\ query = <<>>
    /\ result = [some |-> FALSE, mime |-> <<>>]
    /\ fs = <<>>
    /\ InitIndex
    /\ InitNoIcon
    /\ InitNoParse
    /\ InitNoExec

GlobNew ==
    /\ gpc = "new"
    /\ glob_index' = MIMEGlobIndex_new(globs2)
    /\ gpc' = "ready"
    /\ UNCHANGED <<globs2, query, result, menuvars, iconvars, parsevars, execvars>>

MatchFilename ==
    /\ gpc \in {"ready", "matched"}
    /\ \E filename \in FileNames :
          /\ query' = filename
          /\ result' = match_filename(glob_index, filename)
    /\ gpc' = "matched"
    /\ UNCHANGED <<globs2, glob_index, menuvars, iconvars, parsevars, execvars>>

NextGlob ==
    \/ GlobNew
    \/ MatchFilename

SpecGlob == InitGlob /\ [][NextGlob]_vars

\* The same program over mimeapps.list files that begin without a header
InitStale ==
    /\ fs \in FSStale
    /\ InitIndex
    /\ InitNoGlob
    /\ InitNoIcon
    /\ InitNoParse
    /\ InitNoExec

SpecStale == InitStale /\ [][NextAssoc]_vars

(***************************************************************************)
(* A caller that scans again: scan_all on the index of an earlier scan_all, *)
(* over what the directories hold by then, and change_default_assoc         *)
(* between the scans.                                                       *)
(***************************************************************************)
InitRescan ==
    /\ fs \in FSRescan
    /\ InitIndex
    /\ InitNoGlob
    /\ InitNoIcon
    /\ InitNoParse
    /\ InitNoExec

Rescan ==
    /\ pc = "idle"
    /\ nscans < MaxRescans
    /\ fs' \in FSRescan
    /\ SetMI(desk_parser_reset(MI).mi)
    /\ pc' = "roots"
    /\ root' = 0
    /\ file' = 0
    /\ last' = LastNone
    /\ nscans' = nscans + 1
    /\ UNCHANGED <<nchanges, stack, calls, globvars, iconvars, parsevars, execvars>>

NextRescan ==
    \/ ScanAllBegin
    \/ ScanNextRoot
    \/ ScanFile
    \/ ScanMimeapps
    \/ ScanRootDone
    \/ ScanAllFinish
    \/ Rescan
    \/ ChangeDefaultAssoc

SpecRescan == InitRescan /\ [][NextRescan]_vars

(***************************************************************************)
(* DesktopFile::parse on its own: a caller maps a file and parses it, once *)
(* or in a loop, with a callback that records what it is handed.           *)
(***************************************************************************)
MaxBufLen == 4
ParseBytes == {"[", "]", "=", "#", " ", NL, "a"}
ParseBuffers == SeqsUpTo(ParseBytes, MaxBufLen)

InitParse ==
    /\ buf \in ParseBuffers
    /\ ppc = "mapped"
    /\ pout = NoEvents
    /\ pout2 = NoEvents
    /\ fs = <<>>
    /\ InitIndex
    /\ InitNoGlob
    /\ InitNoIcon
    /\ InitNoExec

\* the first p.parse(&mut callback)
Parse ==
    /\ ppc = "mapped"
    /\ pout' = parse(buf)
    /\ ppc' = IF parse(buf).panicked THEN "panicked" ELSE "parsed"
    /\ UNCHANGED <<buf, pout2, menuvars, globvars, iconvars, execvars>>

\* a further p.parse(&mut callback) on the same mapping
ParseAgain ==
    /\ ppc \in {"parsed", "again"}
    /\ pout2' = parse(buf)
    /\ ppc' = "again"
    /\ UNCHANGED <<buf, pout, menuvars, globvars, iconvars, execvars>>

NextParse ==
    \/ Parse
    \/ ParseAgain

SpecParse == InitParse /\ [][NextParse]_vars

(***************************************************************************)
(* exec_with_filenames, one pass of its while loop at a time.              *)
(***************************************************************************)
InitExec ==
    /\ exec \in Execs
    /\ paths \in PathLists
    /\ next_path_id = 0
    /\ eresult = <<>>
    /\ epc = "called"
    /\ fs = <<>>
    /\ InitIndex
    /\ InitNoGlob
    /\ InitNoIcon
    /\ InitNoParse

\* A pass that leaves next_path_id as it found it is followed by the same
\* pass without end, each pushing the same string: the loop is "spinning"
ExecPass ==
    /\ epc \in {"called", "looping"}
    /\ next_path_id < Len(paths)
    /\ LET r == exec_pass(exec, paths, next_path_id)
       IN IF r.panicked
          THEN /\ epc' = "panicked"
               /\ UNCHANGED <<next_path_id, eresult>>
          ELSE /\ eresult' = Append(eresult, join(r.fragments))
               /\ next_path_id' = r.next_path_id
               /\ epc' = IF r.next_path_id = next_path_id THEN "spinning" ELSE "looping"
    /\ UNCHANGED <<exec, paths, menuvars, globvars, iconvars, parsevars>>

ExecReturn ==
    /\ epc \in {"called", "looping"}
    /\ next_path_id >= Len(paths)
    /\ epc' = "returned"
    /\ UNCHANGED <<exec, paths, next_path_id, eresult, menuvars, globvars, iconvars, parsevars>>

NextExec ==
    \/ ExecPass
    \/ ExecReturn

SpecExec == InitExec /\ [][NextExec]_vars

(***************************************************************************)
(* The icon resolver: scan_with_theme, then find_icon_pred.                *)
(***************************************************************************)
InitIcon ==
    /\ icon_fs \in IconTrees
    /\ themes = <<>>
    /\ ipc = "new"
    /\ iquery = [size |-> 0, pred |-> {}]
    /\ iresult = NoIcon
    /\ fs = <<>>
    /\ InitIndex
    /\ InitNoGlob
    /\ InitNoParse
    /\ InitNoExec

\* scan_with_theme: scan_all_dir pushes the theme of the next theme directory
ScanAllDir ==
    /\ ipc = "new"
    /\ Len(themes) < NumThemes
    /\ themes' = Append(themes, IconTheme_new(icon_fs, Len(themes) + 1))
    /\ UNCHANGED <<icon_fs, ipc, iquery, iresult, menuvars, globvars, parsevars, execvars>>

\* scan_with_theme returns
ScanWithThemeDone ==
    /\ ipc = "new"
    /\ Len(themes) = NumThemes
    /\ ipc' = "ready"
    /\ UNCHANGED <<icon_fs, themes, iquery, iresult, menuvars, globvars, parsevars, execvars>>

FindIconPred ==
    /\ ipc \in {"ready", "found"}
    /\ \E real_size \in IconSizes, pred \in IconPreds :
          /\ iquery' = [size |-> real_size, pred |-> pred]
          /\ iresult' = find_icon_pred(icon_fs, themes, 1, real_size, pred)
    /\ ipc' = "found"
    /\ UNCHANGED <<icon_fs, themes, menuvars, globvars, parsevars, execvars>>

NextIcon ==
    \/ ScanAllDir
    \/ ScanWithThemeDone
    \/ FindIconPred

SpecIcon == InitIcon /\ [][NextIcon]_vars

(***************************************************************************)
(* Properties of scanning and printing (Spec).                             *)
(***************************************************************************)
\* The parser MenuIndex::new builds, as it stands when a file's pass begins
FreshDeskParser(stem) ==
    [MenuIndex_new_default.desk_parser EXCEPT !.filename = stem,
                                              !.current = MenuItem_new]
FreshAssocParser == MenuIndex_new_default.assoc_parser

\* The item desk_parser_reset pushes for `current`, its arena position aside
Finalized(current) ==
    IF current.detail.kind = "Entry" /\ current.detail.wmclass = <<>>
    THEN [current EXCEPT !.detail.wmclass = guess_wmclass(current.detail.exec)]
    ELSE current
SameFields(item, current) ==
    /\ item.name = current.name
    /\ item.icon = current.icon
    /\ item.categories = current.categories
    /\ item.hidden = current.hidden
    /\ item.detail = Finalized(current).detail

\* The files of applications/ named stem.desktop, as <<root, position>>
AppFiles(stem) ==
    {rf \in {<<r, k>> : r \in 1..Len(fs), k \in 1..2} :
        rf[2] <= Len(fs[rf[1]].apps) /\ fs[rf[1]].apps[rf[2]].stem = stem}
Later(a, b) == a[1] > b[1] \/ (a[1] = b[1] /\ a[2] >= b[2])

\* C2: after scan_all over roots that hold the same basename.desktop more
\* than once, the arena holds exactly one entry item of that basename, the one
\* filename_index names, and it carries the Categories of the file scanned last.
C2_OneItemPerBasename ==
    pc = "idle" =>
        \A stem \in {s_foo, s_x} :
            Has(filename_index, stem \o b_dot_desktop) =>
                /\ {i \in 1..Len(items) : items[i].basename = stem
                                          /\ items[i].detail.kind # "Directory"}
                      = {filename_index[stem \o b_dot_desktop] + 1}
                /\ \A rf \in AppFiles(stem) :
                      (\A o \in AppFiles(stem) : Later(rf, o)) =>
                          items[filename_index[stem \o b_dot_desktop] + 1].categories
                              = desk_drive(FreshDeskParser(stem),
                                           parse(fs[rf[1]].apps[rf[2]].bytes).events)
                                  .current.categories

\* C3: scan_all never aborts, whatever the bytes of a file: every pass of the
\* tokenizer returns, and after the scan every later well-formed file that
\* names itself is in filename_index.
C3_ScanAlwaysCompletes ==
    /\ pc # "panicked"
    /\ pc = "idle" =>
          \A r \in 1..Len(fs) : \A k \in 1..Len(fs[r].apps) :
              LET f == fs[r].apps[k]
                  p == parse(f.bytes)
              IN (~p.panicked
                  /\ desk_drive(FreshDeskParser(f.stem), p.events).current.name # <<>>)
                     => Has(filename_index, f.stem \o b_dot_desktop)

\* The callbacks invoked, less the keys and values that follow a section
\* header that starts with none of `prefixes`
RECURSIVE StripUnrecognized(_, _, _)
StripUnrecognized(ev, prefixes, skipping) ==
    IF ev = <<>> THEN <<>>
    ELSE LET e == Head(ev) IN
         IF e.kind = "section"
         THEN <<e>> \o StripUnrecognized(Tail(ev), prefixes,
                                         \A p \in prefixes : ~starts_with(e.bytes, p))
         ELSE IF skipping THEN StripUnrecognized(Tail(ev), prefixes, skipping)
         ELSE <<e>> \o StripUnrecognized(Tail(ev), prefixes, skipping)
DeskRecognized == {b_DesktopAction, b_DesktopEntry}
AssocRecognized == {b_DefaultApplications, b_AddAssociations, b_RemovedAssociations}

\* C4: the keys under a section header the handler does not recognize have no
\* effect: the item a .desktop/.directory pass yields, and the records a
\* mimeapps.list pass yields, are those of the same file without the bodies
\* of its unrecognized sections.
C4_UnrecognizedSectionIgnored ==
    /\ (last.op = "file" /\ pc # "panicked") =>
          LET ev == parse(last.bytes).events
              ref == desk_drive(FreshDeskParser(last.stem),
                                StripUnrecognized(ev, DeskRecognized, FALSE)).current
          IN IF ref.name = <<>> THEN ~last.pushed
             ELSE last.pushed /\ SameFields(items[Len(items)], ref)
    /\ (last.op = "mimeapps" /\ pc # "panicked") =>
          last.assocs =
              assoc_drive(FreshAssocParser,
                          StripUnrecognized(parse(last.bytes).events,
                                            AssocRecognized, FALSE)).assocs

\* C6: no item of the arena has the detail Unknown.
C6_NoUnknownInArena ==
    \A i \in 1..Len(items) : items[i].detail.kind # "Unknown"

\* C9: Menu::print never hands the visitor a category that has no children:
\* every directory item in a print, enter_menu or leave_menu call names a menu
\* with at least one child.
C9_EmptyMenuNeverVisited ==
    \A k \in 1..Len(calls) :
        LET item == items[calls[k].item + 1]
        IN item.detail.kind = "Directory" =>
              Has(index, item.basename) /\ index[item.basename].children # <<>>

\* A traversal is over that passed a directory file's menu without children,
\* listed under the root menu
C9_Witness ==
    /\ pc = "printed"
    /\ calls # <<>>
    /\ \E i \in 3..Len(items) :
          /\ items[i].detail.kind = "Directory"
          /\ index[items[i].basename].item_idx = i - 1
          /\ index[items[i].basename].children = <<>>
          /\ \E c \in 1..Len(index[<<>>].children) : index[<<>>].children[c] = i - 1

\* C10 as stated: visitor.print is called only with leaf items that are not
\* hidden, and never with a directory item.
C10_PrintOnlyVisibleLeaves ==
    \A k \in 1..Len(calls) :
        calls[k].op = "print" =>
            /\ items[calls[k].item + 1].detail.kind # "Directory"
            /\ ~items[calls[k].item + 1].hidden

\* C10 as the code has it: enter_menu and leave_menu are called only with
\* directory items; print is called with a directory item exactly when the
\* next call is enter_menu of the same item, and every enter_menu follows
\* such a print; every other print is for a leaf child, hidden or not.
C10_PrintCalls ==
    \A k \in 1..Len(calls) :
        LET c == calls[k]
            item == items[c.item + 1]
        IN /\ c.op \in {"enter_menu", "leave_menu"} => item.detail.kind = "Directory"
           /\ c.op = "enter_menu" => (k > 1 /\ calls[k - 1] = Call("print", c.item))
           /\ (c.op = "print" /\ item.detail.kind = "Directory") =>
                 (k < Len(calls) /\ calls[k + 1] = Call("enter_menu", c.item))
           /\ (c.op = "print" /\ item.detail.kind # "Directory") =>
                 \E key \in DOMAIN index :
                    \E j \in 1..Len(index[key].children) :
                       index[key].children[j] = c.item

\* A traversal is over in which print was called with a hidden leaf
C10_Witness ==
    /\ pc = "printed"
    /\ \E k \in 1..Len(calls) :
          /\ calls[k].op = "print"
          /\ items[calls[k].item + 1].detail.kind = "Entry"
          /\ items[calls[k].item + 1].hidden

(***************************************************************************)
(* Properties of the associations (SpecAssoc).                             *)
(***************************************************************************)
DefaultOf(mai, mime) == IF Has(mai, mime) THEN mai[mime].default ELSE None

\* C1: after change_default_assoc(mime, idx) the index names idx the default
\* of mime, and local_assocs holds the Default record of mime with the file
\* name of item idx, so that a following write persists the new default.
C1_ChangePersistsDefault ==
    last.op = "change" =>
        /\ DefaultOf(mime_assoc_index, last.mime) = last.idx
        /\ \E k \in 1..Len(local_assocs) :
              local_assocs[k] = Assoc(items[last.idx + 1].basename \o b_dot_desktop,
                                      last.mime, "Default")

\* The records the handler collects from the bytes of a mimeapps.list
Reparse(bytes) == assoc_drive(FreshAssocParser, parse(bytes).events).assocs
Count(seq, x) == Cardinality({k \in 1..Len(seq) : seq[k] = x})
SameMultiset(a, b) ==
    /\ Len(a) = Len(b)
    /\ \A k \in 1..Len(a) : Count(a, a[k]) = Count(b, a[k])

AppliedDefaults(assocs, mime) ==
    {k \in 1..Len(assocs) :
        /\ assocs[k].assoc_type = "Default"
        /\ assocs[k].mime = mime
        /\ Has(filename_index, assocs[k].filename)
        /\ items[filename_index[assocs[k].filename] + 1].detail.kind = "Entry"}
MaxOf(S) == CHOOSE k \in S : \A j \in S : j <= k

C8_Step ==
    \A mime \in Mimes \cup DOMAIN mime_assoc_index \cup DOMAIN mime_assoc_index' :
        IF last'.op = "mimeapps"
        THEN LET D == AppliedDefaults(last'.assocs, mime)
             IN DefaultOf(mime_assoc_index', mime) =
                   IF D = {} THEN DefaultOf(mime_assoc_index, mime)
                   ELSE filename_index[last'.assocs[MaxOf(D)].filename]
        ELSE last'.op # "change" =>
                DefaultOf(mime_assoc_index', mime) = DefaultOf(mime_assoc_index, mime)

\* C8: the scan of a mimeapps.list leaves as the default of a MIME type the
\* entry of its last Default record for that type that names an entry, and
\* the previous default when it has none; Add and Remove records, and every
\* step other than change_default_assoc, leave every default as it was.  So
\* the last applied Default wins, a later root's over an earlier root's.
C8_LastDefaultWins == [][C8_Step]_vars

\* Three roots were scanned whose lists say Default foo, Default x and Add x
\* for a/m, and x is the default
C8_Witness ==
    /\ pc = "idle"
    /\ nchanges = 0
    /\ Len(fs) = 3
    /\ fs[1].has_mimeapps /\ fs[1].mimeapps = ma_def_foo
    /\ fs[2].mimeapps = ma_def_x
    /\ fs[3].mimeapps = ma_add
    /\ DefaultOf(mime_assoc_index, m_am) = filename_index[s_x \o b_dot_desktop]

\* C19: applying an Add record (m, f) appends m to the mime list of entry f
\* only if m is not in it already: no entry's mime list holds m more than
\* once, and a single Remove (m, f) that follows leaves m absent from the list.
C19_AddOnlyIfAbsent ==
    /\ \A i \in DOMAIN items : \A m \in Mimes :
          items[i].detail.kind = "Entry" => Count(items[i].detail.mimes, m) <= 1
    /\ (last.op = "mimeapps" /\ pc # "panicked" /\ last.assocs # <<>>) =>
          LET r == last.assocs[Len(last.assocs)]
          IN (r.assoc_type = "Remove" /\ Has(filename_index, r.filename)) =>
                Count(items[filename_index[r.filename] + 1].detail.mimes, r.mime) = 0

\* C20: after scan_all, for every MIME type m of the association table,
\* all(m) holds the arena indices of exactly the Entry items whose final mime
\* list contains m, each index once, and default(m) is what the Default
\* records had set (unset if none): the step that builds the candidate lists
\* changes no default.
C20_Step ==
    (pc = "roots" /\ pc' = "idle") =>
        \A m \in DOMAIN mime_assoc_index' :
            LET all == mime_assoc_index'[m].all
                holders == {i \in 0..(Len(items') - 1) :
                               /\ items'[i + 1].detail.kind = "Entry"
                               /\ Count(items'[i + 1].detail.mimes, m) >= 1}
            IN /\ {all[k] : k \in DOMAIN all} = holders
               /\ \A i \in holders : Count(all, i) = 1
               /\ mime_assoc_index'[m].default = DefaultOf(mime_assoc_index, m)
C20_CandidateLists == [][C20_Step]_vars

(***************************************************************************)
(* Properties of the glob matcher (SpecGlob).                              *)
(***************************************************************************)
\* C5: when the suffix table and the pattern list both hold a candidate for
\* the file name, match_filename returns the MIME type of the one with the
\* strictly higher score, and the suffix candidate's on equal scores; with
\* *.tar.gz and *.tar.* both at score 50, archive.tar.gz gets the MIME type of
\* the suffix entry *.tar.gz.
C5_TieFavoursSuffix ==
    gpc = "matched" =>
        LET suffix_match == match_filename_suffix(glob_index, query)
            pattern_match == match_filename_pattern(glob_index, query, 0)
        IN /\ (suffix_match.some /\ pattern_match.some) =>
                 result = [some |-> TRUE,
                           mime |-> IF pattern_match.score > suffix_match.score
                                    THEN pattern_match.mime
                                    ELSE suffix_match.mime]
           /\ (globs2 = <<Rec(50, mt_targz, p_targz), Rec(50, mt_generic, p_tar_any)>>
               /\ query = fn_archive) => result = [some |-> TRUE, mime |-> mt_targz]

\* C16: match_filename(name) returns no match only when nothing in the index
\* matches: if the suffix table holds an entry *S such that name ends with S
\* (also a suffix with more than one dot, and an entry of score 0), or the
\* pattern list holds an entry whose glob matches name, the result is some
\* MIME type.
C16_NoneOnlyWhenNothingMatches ==
    gpc = "matched" =>
        (((\E S \in DOMAIN glob_index.glob_suffix_index : ends_with(query, S))
          \/ (\E i \in DOMAIN glob_index.glob_patterns :
                 pattern_matches(glob_index.glob_patterns[i].pattern, query)))
         => result.some)

(***************************************************************************)
(* Properties of the icon resolver (SpecIcon).                             *)
(***************************************************************************)
\* What the size directory at position k was scanned as
DescOf(k) == parse_desc(icon_fs[k].name)
Resolution(k) == icon_size(DescOf(k).desc)
HoldsName(k) == icon_fs[k].svg # "none" \/ icon_fs[k].png # "none"
\* Theme directory t has a bitmap bucket of resolution r that contains the name
BucketHas(t, r) ==
    \E k \in DOMAIN icon_fs :
        /\ icon_fs[k].theme = t /\ DescOf(k).some /\ ~DescOf(k).desc.scalable
        /\ Resolution(k) = r /\ HoldsName(k)
ScalableHas(t) ==
    \E k \in DOMAIN icon_fs :
        /\ icon_fs[k].theme = t /\ DescOf(k).some /\ DescOf(k).desc.scalable
        /\ icon_fs[k].svg # "none"
Resolutions == {icon_size(d) : d \in IconDescs \ {Scalable}}
BucketsFrom(t, S) == {r \in Resolutions : r >= S /\ BucketHas(t, r)}
ThemeMatches(t, S) == ScalableHas(t) \/ BucketsFrom(t, S) # {}
FindIconAsked == ipc = "found" /\ iquery.pred = PredAny
ReturnsBucket(r) ==
    iresult.some /\ ~iresult.desc.scalable /\ icon_size(iresult.desc) = r

\* C11 as stated: find_icon(name, S) with S the resolution of an existing
\* bucket that contains the name returns the file of exactly that bucket; with
\* S strictly between two bitmap buckets it returns the next bucket >= S; it
\* never returns a bitmap bucket of resolution < S unless only smaller exist.
C11_ExactBucketAlways ==
    FindIconAsked =>
        LET S == iquery.size
            has == {r \in Resolutions : \E t \in 1..NumThemes : BucketHas(t, r)}
        IN /\ S \in has => ReturnsBucket(S)
           /\ (\E lo, hi \in has : lo < S /\ S < hi) =>
                 ReturnsBucket(CHOOSE r \in has : r >= S /\ \A q \in has : q >= S => r <= q)
           /\ (iresult.some /\ ~iresult.desc.scalable /\ icon_size(iresult.desc) < S) =>
                 \A r \in has : r < S

\* C11, with the order of the lookup: find_icon(name, S) answers from the
\* first theme that has name.svg in a scalable directory or the name in a
\* bitmap bucket of resolution >= S; in that theme a scalable name.svg wins,
\* and otherwise the answer is the bucket of the least resolution >= S that
\* contains the name (the bucket of resolution S itself when it does).  A
\* bitmap bucket of resolution < S is never returned, and with no such theme
\* there is no match.
C11_NextBucketOfFirstTheme ==
    FindIconAsked =>
        LET S == iquery.size
            matching == {t \in 1..NumThemes : ThemeMatches(t, S)}
        IN IF matching = {} THEN ~iresult.some
           ELSE LET T == CHOOSE t \in matching : \A u \in matching : t <= u
                    from == BucketsFrom(T, S)
                IN /\ iresult.some
                   /\ icon_fs[iresult.dir].theme = T
                   /\ IF ScalableHas(T) THEN iresult.desc.scalable
                      ELSE ReturnsBucket(CHOOSE r \in from : \A q \in from : r <= q)
                   /\ (~iresult.desc.scalable => icon_size(iresult.desc) >= S)

\* A size strictly between two buckets of one theme was asked for, and the
\* larger bucket answered
C11_Witness ==
    /\ FindIconAsked
    /\ iquery.size = 24
    /\ ReturnsBucket(32)
    /\ BucketHas(icon_fs[iresult.dir].theme, 16)

\* C17: find_icon_pred(name, size, pred) returns only icons whose description
\* satisfies pred, from scalable and from bitmap buckets, whether the path
\* matched is a regular file or a symlink.
C17_ResultSatisfiesPred ==
    (ipc = "found" /\ iresult.some) => iresult.desc \in iquery.pred

(***************************************************************************)
(* Properties of repeated scans (SpecRescan).                              *)
(***************************************************************************)
ScanAllHasRun == pc = "idle" \/ nscans >= 1

\* C12: once scan_all has run, and after any further scans and calls of
\* change_default_assoc, item 0 is the synthetic hidden root Directory, item 1
\* is the synthetic Others Directory (basename __other_apps) that the Others
\* bucket of the category map refers to, and every item's idx is its position.
C12_SyntheticHeads ==
    ScanAllHasRun =>
        /\ Len(items) >= 2
        /\ items[1] = MenuItem_root
        /\ items[2] = MenuItem_other
        /\ Has(index, b_other_apps) /\ index[b_other_apps].item_idx = 1
        /\ Has(index, <<>>) /\ index[<<>>].item_idx = 0
        /\ \A i \in DOMAIN items : items[i].idx = i - 1


(***************************************************************************)
(* Properties of the tokenizer (SpecParse).                                *)
(***************************************************************************)
\* The reference tokenizer: the events of one line, without its newline
RECURSIVE TrimLeft(_)
TrimLeft(line) ==
    IF line # <<>> /\ Head(line) = " " THEN TrimLeft(Tail(line)) ELSE line
\* The bytes of s before the first c, all of s when it has none; and the
\* bytes after that c
RECURSIVE UpTo(_, _)
UpTo(s, c) ==
    IF s = <<>> \/ Head(s) = c THEN <<>> ELSE <<Head(s)>> \o UpTo(Tail(s), c)
After(s, c) == SubSeq(s, Len(UpTo(s, c)) + 2, Len(s))
RefLine(line) ==
    LET t == TrimLeft(line)
    IN IF t = <<>> \/ Head(t) = "#" THEN <<>>
       ELSE IF Head(t) = "[" THEN <<Ev("section", UpTo(Tail(t), "]"))>>
       ELSE <<Ev("key", UpTo(t, "=")), Ev("value", After(t, "="))>>
RECURSIVE RefEvents(_)
RefEvents(bytes) ==
    IF bytes = <<>> THEN <<>>
    ELSE RefLine(UpTo(bytes, NL)) \o RefEvents(After(bytes, NL))

\* C13: for every byte buffer, parse emits exactly the reference event
\* sequence (lines trimmed on the left only, blank and '#' lines emit
\* nothing, a '[' line emits a section, any other line a key and then one
\* value), and parsing the same buffer again yields the same sequence.
C13_ParseIsReference ==
    /\ ppc # "mapped" => (~pout.panicked /\ pout.events = RefEvents(buf))
    /\ ppc = "again" => pout2 = pout

(***************************************************************************)
(* Properties of printing over any category graph (SpecCycle).             *)
(***************************************************************************)
\* C14: print(visitor) terminates for every index scan_all can build, also
\* when directory items name categories that make the category graph cyclic
\* and such a directory is reachable from the root.  Menu::print reads index
\* and items only and writes neither, so a menu that is entered while it is
\* already on the recursion stack is entered again without end.
C14_PrintTerminates ==
    /\ pc # "overflow"
    /\ \A i, j \in DOMAIN stack : i < j => stack[i].key # stack[j].key

(***************************************************************************)
(* Properties of exec_with_filenames (SpecExec).                           *)
(***************************************************************************)
\* C15: exec_with_filenames(paths) terminates for every Exec string and every
\* non-empty path list, also when Exec has no %f/%F/%u/%U marker (or only
\* %%), and never indexes past the end of paths.
C15_ExecTerminates ==
    epc \notin {"spinning", "panicked"}

(***************************************************************************)
(* Properties of the parsers' scratch state (SpecStale).                   *)
(***************************************************************************)
\* C18: the result of parsing one file depends only on that file, not on the
\* files parsed before it: the item finalized from a .desktop or .directory
\* file, and the Assoc records (with their kinds) obtained from a root's
\* mimeapps.list, are those a parser fresh from MenuIndex::new obtains from
\* the same bytes, also when the mimeapps.list has key lines before its first
\* header or under an unrecognized first section.
C18_ParseDependsOnFileOnly ==
    /\ (last.op = "file" /\ pc # "panicked") =>
          LET ref == desk_drive(FreshDeskParser(last.stem),
                                parse(last.bytes).events).current
          IN IF ref.name = <<>> THEN ~last.pushed
             ELSE /\ last.pushed
                  /\ SameFields(items[Len(items)], ref)
                  /\ items[Len(items)].basename = last.stem
    /\ (last.op = "mimeapps" /\ pc # "panicked") =>
          last.assocs = Reparse(last.bytes)

(***************************************************************************)
(* Properties of the connect pass (SpecConnect).                           *)
(***************************************************************************)
ScanAllDone == pc \in {"idle", "print", "printed", "overflow"}
\* The ';'-separated category tokens of an item, the empty ones aside
CatTokens(item) ==
    LET toks == Split(item.categories, ";")
    IN {toks[k] : k \in DOMAIN toks} \ {<<>>}
ChildOf(key, idx) ==
    Has(index, key) /\ \E k \in DOMAIN index[key].children : index[key].children[k] = idx
NonRootItems == {items[i] : i \in 2..Len(items)}
PlainDirectory(item) == item.detail.kind = "Directory" /\ item.categories = <<>>
Matched(item) == CatTokens(item) \cap DOMAIN index # {}

\* C21 as stated: after scan_all every non-root item is a child of at least
\* one category node: a Directory with empty categories of the root only, any
\* other item of every existing node whose key is one of its category tokens,
\* and of Others if and only if none of its tokens matched an existing node.
C21_EveryItemPlaced ==
    ScanAllDone =>
        \A item \in NonRootItems :
            /\ \E key \in DOMAIN index : ChildOf(key, item.idx)
            /\ IF PlainDirectory(item)
               THEN \A key \in DOMAIN index : ChildOf(key, item.idx) <=> key = <<>>
               ELSE /\ \A key \in CatTokens(item) \cap DOMAIN index : ChildOf(key, item.idx)
                    /\ ChildOf(b_other_apps, item.idx) <=> ~Matched(item)

\* C21, with the exception the connect pass makes: a Directory with empty
\* categories is a child of the root only; any other item is a child of
\* exactly the existing nodes whose key is one of its non-empty category
\* tokens, and besides of Others when no token matched and its basename is
\* not __other_apps.  An item of that basename whose tokens match no node is
\* a child of no node.
C21_PlacementRule ==
    ScanAllDone =>
        \A item \in NonRootItems : \A key \in DOMAIN index :
            ChildOf(key, item.idx) <=>
                IF PlainDirectory(item) THEN key = <<>>
                ELSE \/ key \in CatTokens(item)
                     \/ /\ key = b_other_apps
                        /\ ~Matched(item)
                        /\ item.basename # b_other_apps

\* An entry is a child of the node U, which a directory file scanned after it
\* declared, and not of Others; an item with no category is in Others; and a
\* directory in two categories is a child of both nodes
C21_Witness ==
    /\ pc = "idle"
    /\ \E item \in NonRootItems :
          /\ item.detail.kind = "Entry"
          /\ ChildOf(s_U, item.idx) /\ ~ChildOf(b_other_apps, item.idx)
          /\ index[s_U].item_idx > item.idx
    /\ \E item \in NonRootItems :
          /\ item.categories = <<>> /\ item.detail.kind # "Directory"
          /\ ChildOf(b_other_apps, item.idx)
    /\ \E item \in NonRootItems : ChildOf(s_U, item.idx) /\ ChildOf(s_N, item.idx)

=============================================================================
